---------------------------- MODULE Spec2Model ----------------------------
(***************************************************************************)
(* Connectivity layer of lzx_svc: the SSH tunnel registry and URL rewriter *)
(* (app/infra/ssh_tunnel.py), the lazily initialised resource clients      *)
(* (redis_client.py, mongo_client.py, es_client.py, doris.py, mysql.py)    *)
(* and the shutdown sequence of the application (app/main.py, lifespan).   *)
(*                                                                         *)
(* A connection string is a sequence of tokens, e.g.                       *)
(*   <<"mysql", "://", "user", ":", "pw", "@", "10.1.1.5", ":", "3306",    *)
(*     "/", "db">>                                                         *)
(* make_url parses such a sequence into a URL record and render_as_string  *)
(* renders a URL record back into a sequence of tokens.                    *)
(***************************************************************************)
EXTENDS Integers, Sequences, FiniteSets, TLC

(***************************************************************************)
(* Bounds of the model.                                                    *)
(***************************************************************************)
\* number of operations the callers start in one behaviour
MaxCalls == 3
\* number of asynchronous tunnel deaths in one behaviour
MaxDeaths == 1

(***************************************************************************)
(* Values standing for Python's None and for the masked password.          *)
(***************************************************************************)
None == "<None>"
Masked == "***"
Loopback == "127.0.0.1"
NoPort == 0

(***************************************************************************)
(* Decimal rendering of a port, str(port), and its inverse int(text).      *)
(***************************************************************************)
Digit == <<"0", "1", "2", "3", "4", "5", "6", "7", "8", "9">>

RECURSIVE IntToStr(_)
IntToStr(n) ==
    IF n < 10 THEN Digit[n + 1]
    ELSE IntToStr(n \div 10) \o Digit[(n % 10) + 1]

\* the first local port the operating system hands out in the model
LocalPortBase == 54321

\* local_bind_port of the i-th forwarder started in this process
\* (local_bind_address=("127.0.0.1", 0): the OS picks a free port)
LocalPortOf(i) == LocalPortBase + (i - 1)

\* the port numbers a connection string of the model can carry
KnownPorts == {3306, 9030, 6379, 27017, 9200} \cup {LocalPortOf(i) : i \in 1..8}

IsNumeric(text) == \E n \in KnownPorts : IntToStr(n) = text

StrToInt(text) == CHOOSE n \in KnownPorts : IntToStr(n) = text

(***************************************************************************)
(* sqlalchemy.engine.url as used by get_tunneled_url: make_url parses      *)
(*   name://[username[:password]@][host][:port][/database][?query]         *)
(* and raises ArgumentError on a string of another shape; int(port) raises *)
(* on a port that is no number.                                            *)
(***************************************************************************)
Delims == {"://", ":", "@", "/", "?"}

\* position of the first occurrence of token t in s, 0 when there is none
IndexOf(s, t) ==
    IF \E i \in 1..Len(s) : s[i] = t
    THEN CHOOSE i \in 1..Len(s) : s[i] = t /\ \A j \in 1..(i - 1) : s[j] # t
    ELSE 0

Tail2(s, i) == IF i > Len(s) THEN <<>> ELSE SubSeq(s, i, Len(s))

\* username[:password] before the "@"
ParseUserInfo(ui) ==
    CASE ui = <<>> -> [ok |-> TRUE, username |-> "", password |-> None]
      [] Len(ui) = 1 /\ ui[1] \notin Delims ->
            [ok |-> TRUE, username |-> ui[1], password |-> None]
      [] Len(ui) = 2 /\ ui[1] = ":" /\ ui[2] \notin Delims ->
            [ok |-> TRUE, username |-> "", password |-> ui[2]]
      [] Len(ui) = 3 /\ ui[1] \notin Delims /\ ui[2] = ":" /\ ui[3] \notin Delims ->
            [ok |-> TRUE, username |-> ui[1], password |-> ui[3]]
      [] OTHER -> [ok |-> FALSE, username |-> None, password |-> None]

\* [host][:port] up to the next "/" or "?"
ParseHostPort(hp) ==
    CASE hp = <<>> -> [ok |-> TRUE, host |-> None, port |-> NoPort]
      [] Len(hp) = 1 /\ hp[1] \notin Delims ->
            [ok |-> TRUE, host |-> hp[1], port |-> NoPort]
      [] Len(hp) = 2 /\ hp[1] = ":" /\ IsNumeric(hp[2]) ->
            [ok |-> TRUE, host |-> None, port |-> StrToInt(hp[2])]
      [] Len(hp) = 3 /\ hp[1] \notin Delims /\ hp[2] = ":" /\ IsNumeric(hp[3]) ->
            [ok |-> TRUE, host |-> hp[1], port |-> StrToInt(hp[3])]
      [] OTHER -> [ok |-> FALSE, host |-> None, port |-> NoPort]

\* [/database][?query]
ParsePath(pq) ==
    CASE pq = <<>> -> [ok |-> TRUE, database |-> None, query |-> None]
      [] Len(pq) = 2 /\ pq[1] = "/" /\ pq[2] \notin Delims ->
            [ok |-> TRUE, database |-> pq[2], query |-> None]
      [] Len(pq) = 2 /\ pq[1] = "?" /\ pq[2] \notin Delims ->
            [ok |-> TRUE, database |-> None, query |-> pq[2]]
      [] Len(pq) = 4 /\ pq[1] = "/" /\ pq[2] \notin Delims
                     /\ pq[3] = "?" /\ pq[4] \notin Delims ->
            [ok |-> TRUE, database |-> pq[2], query |-> pq[4]]
      [] OTHER -> [ok |-> FALSE, database |-> None, query |-> None]

BadUrl ==
    [ok |-> FALSE, drivername |-> None, username |-> None, password |-> None,
     host |-> None, port |-> NoPort, database |-> None, query |-> None]

\* make_url(name_or_url): ok = FALSE stands for the ArgumentError / ValueError
make_url(s) ==
    IF Len(s) < 2 \/ s[1] \in Delims \/ s[2] # "://" THEN BadUrl
    ELSE
      LET rest  == Tail2(s, 3)
          at    == IndexOf(rest, "@")
          ui    == IF at = 0 THEN [ok |-> TRUE, username |-> None, password |-> None]
                   ELSE ParseUserInfo(SubSeq(rest, 1, at - 1))
          loc   == Tail2(rest, at + 1)
          slash == IndexOf(loc, "/")
          qm    == IndexOf(loc, "?")
          cut   == IF slash # 0 /\ (qm = 0 \/ slash < qm) THEN slash
                   ELSE IF qm # 0 THEN qm ELSE Len(loc) + 1
          hp    == ParseHostPort(SubSeq(loc, 1, cut - 1))
          pq    == ParsePath(Tail2(loc, cut))
      IN  IF ~(ui.ok /\ hp.ok /\ pq.ok) THEN BadUrl
          ELSE [ok |-> TRUE, drivername |-> s[1],
                username |-> ui.username, password |-> ui.password,
                host |-> hp.host, port |-> hp.port,
                database |-> pq.database, query |-> pq.query]

\* URL.create(drivername, username, password, host, port, database, query)
URL_create(drivername, username, password, host, port, database, query) ==
    [ok |-> TRUE, drivername |-> drivername,
     username |-> username, password |-> password,
     host |-> host, port |-> port, database |-> database, query |-> query]

Opt(cond, toks) == IF cond THEN toks ELSE <<>>

\* URL.render_as_string(hide_password): str(url) is render_as_string(TRUE)
render_as_string(u, hide_password) ==
    <<u.drivername, "://">>
    \o Opt(u.username # None,
           Opt(u.username # "", <<u.username>>)
           \o Opt(u.password # None,
                  <<":", IF hide_password THEN Masked ELSE u.password>>)
           \o <<"@">>)
    \o Opt(u.host # None, <<u.host>>)
    \o Opt(u.port # NoPort, <<":", IntToStr(u.port)>>)
    \o Opt(u.database # None, <<"/", u.database>>)
    \o Opt(u.query # None, <<"?", u.query>>)

(***************************************************************************)
(* Configuration (app/core/config.py): read once when the process starts.  *)
(***************************************************************************)
MYSQL_URL == <<"mysql+aiomysql", "://", "user", ":", "pw", "@", "10.1.1.5", ":", "3306", "/", "db">>
DORIS_URL == <<"mysql+pymysql", "://", "user", ":", "pw", "@", "10.1.1.6", ":", "9030", "/", "dw", "?", "charset=utf8">>
REDIS_URL == <<"redis", "://", ":", "secret", "@", "10.1.1.7", ":", "6379", "/", "0">>
MONGO_PRIMARY_URI == <<"mongodb", "://", "u", ":", "p", "@", "10.1.1.8", ":", "27017", "/", "main">>
MONGO_ATTENDENCE_URI == <<"mongodb", "://", "u", ":", "p", "@", "10.1.1.8", ":", "27017", "/", "attend">>
ES_HOSTS == << <<"http", "://", "10.1.1.9", ":", "9200">> >>

\* settings: the enabled flag and the jump host credentials of ssh_tunnel,
\* and the resources whose connection string is left blank (none here)
Policies ==
    { [enabled |-> FALSE, ssh_host |-> "jump", ssh_username |-> "ops", blank |-> {}],
      [enabled |-> TRUE,  ssh_host |-> "jump", ssh_username |-> "ops", blank |-> {}],
      [enabled |-> TRUE,  ssh_host |-> "",     ssh_username |-> "ops", blank |-> {}],
      [enabled |-> TRUE,  ssh_host |-> "jump", ssh_username |-> "",    blank |-> {}] }

\* the resources a deployment may leave unconfigured
Optional == {"redis", "es", "mongo_primary", "mongo_attend", "doris"}

\* the value of a setting: blank when the deployment does not configure it
SettingOf(cfg, name, value) == IF name \in cfg.blank THEN <<>> ELSE value

VARIABLES
    policy,     \* settings: ssh_tunnel and the blank connection strings
    tunnels,    \* _TUNNELS: (remote host, remote port) -> forwarder
    fwds,       \* every SSHTunnelForwarder started so far
    slotv,      \* the module globals holding the clients (0 is None)
    clients,    \* every client constructed so far
    callers,    \* the position and locals of each caller
    life,       \* the position of lifespan()
    calls,      \* operations started so far
    deaths      \* tunnels that died so far

vars == <<policy, tunnels, fwds, slotv, clients, callers, life, calls, deaths>>

Callers == {"t1", "t2"}

Slots == {"mysql", "doris", "redis", "mongo_primary", "mongo_attend", "es", "qiniu"}

\* operations that run on the event loop; the others run on worker threads
LoopOps == {"get_redis_client", "get_es", "get_doris_session"}

IdleCaller ==
    [op |-> "none", pc |-> "idle", after |-> "idle", url |-> <<>>, fw |-> 0,
     ret |-> <<>>, exc |-> None, log |-> <<>>, src |-> "fresh",
     acc |-> <<>>, cli |-> 0]

(***************************************************************************)
(* ssh_tunnel.py                                                           *)
(***************************************************************************)
\* _ssh_enabled() without the test of cfg.enabled (line 16)
SshEnabledIgnoringFlag(cfg) ==
    IF ~(cfg.ssh_host # "" /\ cfg.ssh_username # "") THEN FALSE
    ELSE TRUE

\* _ssh_enabled() without the test of the jump host credentials (line 18)
SshEnabledIgnoringCredentials(cfg) ==
    IF ~cfg.enabled THEN FALSE
    ELSE TRUE

\* _ssh_enabled()
ssh_enabled(cfg) ==
    IF ~cfg.enabled THEN FALSE
    ELSE IF ~(cfg.ssh_host # "" /\ cfg.ssh_username # "") THEN FALSE
    ELSE TRUE

\* key = (remote_host, remote_port)
KeyOf(url) == <<url.host, url.port>>

\* the lookup of line 53 finding nothing, whatever the registry holds
TunnelGetNothing(tun, key) == 0

\* forwarder = _TUNNELS.get(key), 0 when the key is absent
TunnelGet(tun, key) == IF key \in DOMAIN tun THEN tun[key] ELSE 0

\* the test of line 55 without "or not forwarder.is_active"
NeedsTunnelIgnoringActive(f, fw) == f = 0

\* forwarder is None or not forwarder.is_active
NeedsTunnel(f, fw) == f = 0 \/ ~fw[f].active

\* URL.create(...) called without query=url.query (line 84)
NewUrlWithoutQuery(url, local_bind_port) ==
    URL_create(url.drivername, url.username, url.password, Loopback,
               local_bind_port, url.database, None)

\* new_url = URL.create(..., host="127.0.0.1", port=forwarder.local_bind_port, ...)
NewUrl(url, local_bind_port) ==
    URL_create(url.drivername, url.username, url.password, Loopback,
               local_bind_port, url.database, url.query)

\* full_url = str(new_url), which masks the password (the comment of line 88)
FullUrlMasked(new_url) == render_as_string(new_url, TRUE)

\* full_url = new_url.render_as_string(hide_password=False)
FullUrl(new_url) == render_as_string(new_url, FALSE)

\* the url written to the log: str(new_url)
LoggedUrl(new_url) == render_as_string(new_url, TRUE)

\* SSHTunnelForwarder(...).start() of a forwarder for key: the id-th of the process
NewForwarder(key, id) ==
    [key |-> key, port |-> LocalPortOf(id), active |-> TRUE, stops |-> 0]

\* the outcome of lines 37-55 of get_tunneled_url
GtuEntry(original_url, cfg, tun, fw) ==
    IF original_url = <<>> THEN [kind |-> "return"]
    ELSE IF ~ssh_enabled(cfg) THEN [kind |-> "return"]
    ELSE LET url == make_url(original_url) IN
         IF ~url.ok THEN [kind |-> "raise"]
         ELSE IF url.host = None \/ url.port = NoPort THEN [kind |-> "return"]
         ELSE IF NeedsTunnel(TunnelGet(tun, KeyOf(url)), fw) THEN [kind |-> "create"]
         ELSE [kind |-> "reuse"]

\* get_tunneled_url returns value to the code that called it (label after);
\* a caller that has its result keeps nothing but the call and the result
Return(c, value, logged) ==
    callers' = [callers EXCEPT ![c] =
        IF callers[c].after = "returned"
        THEN [IdleCaller EXCEPT !.op = callers[c].op, !.pc = "returned",
                                !.url = callers[c].url, !.src = callers[c].src,
                                !.ret = value, !.log = logged]
        ELSE [IdleCaller EXCEPT !.op = callers[c].op, !.pc = callers[c].after,
                                !.acc = callers[c].acc, !.ret = value]]

\* an exception leaves every frame of the caller: nothing catches it
Raise(c, e) ==
    callers' = [callers EXCEPT ![c] =
        [IdleCaller EXCEPT !.op = callers[c].op, !.pc = "returned",
                           !.url = IF callers[c].op = "get_tunneled_url"
                                   THEN callers[c].url ELSE <<>>,
                           !.src = callers[c].src, !.exc = e]]

\* a caller on the event loop runs only while no other coroutine holds the loop
LifeHoldsLoop ==
    life.pc \notin {"serving", "await_redis", "await_es", "done", "failed"}

MayRun(c) ==
    callers[c].op \in LoopOps =>
        /\ ~LifeHoldsLoop
        /\ \A d \in Callers \ {c} :
              callers[d].op \in LoopOps => callers[d].pc \in {"idle", "returned"}

\* get_tunneled_url, lines 35-55 (and 77-95 when a live forwarder is found)
GtuEnter(c) ==
    /\ callers[c].pc = "gtu"
    /\ MayRun(c)
    /\ LET original_url == callers[c].url
           d   == GtuEntry(original_url, policy, tunnels, fwds)
           url == make_url(original_url)
       IN  CASE d.kind = "return" -> Return(c, original_url, <<>>)
             [] d.kind = "raise"  -> Raise(c, "ArgumentError")
             [] d.kind = "create" ->
                    callers' = [callers EXCEPT ![c].pc = "gtu_start"]
             [] d.kind = "reuse"  ->
                    LET f == tunnels[KeyOf(url)]
                        new_url == NewUrl(url, fwds[f].port)
                    IN  Return(c, FullUrl(new_url), LoggedUrl(new_url))
    /\ UNCHANGED <<policy, tunnels, fwds, slotv, clients, life, calls, deaths>>

\* lines 56-68: forwarder = SSHTunnelForwarder(...); forwarder.start()
GtuStartOk(c) ==
    /\ callers[c].pc = "gtu_start"
    /\ MayRun(c)
    /\ LET id == Len(fwds) + 1 IN
       /\ fwds' = Append(fwds, NewForwarder(KeyOf(make_url(callers[c].url)), id))
       /\ callers' = [callers EXCEPT ![c].fw = id, ![c].pc = "gtu_store"]
    /\ UNCHANGED <<policy, tunnels, slotv, clients, life, calls, deaths>>

\* lines 68-69 in the other order: the forwarder is registered, then its
\* start() raises
GtuStartFailStoring(c) ==
    /\ callers[c].pc = "gtu_start"
    /\ MayRun(c)
    /\ LET key == KeyOf(make_url(callers[c].url))
           id  == Len(fwds) + 1
       IN  /\ fwds' = Append(fwds, [NewForwarder(key, id) EXCEPT !.active = FALSE])
           /\ tunnels' = (key :> id) @@ tunnels
    /\ Raise(c, "TunnelError")
    /\ UNCHANGED <<policy, slotv, clients, life, calls, deaths>>

\* line 68: forwarder.start() raises (jump host unreachable, auth rejected)
GtuStartFail(c) ==
    /\ callers[c].pc = "gtu_start"
    /\ MayRun(c)
    /\ Raise(c, "TunnelError")
    /\ UNCHANGED <<policy, tunnels, fwds, slotv, clients, life, calls, deaths>>

\* lines 69-95: _TUNNELS[key] = forwarder, then the new url is rendered
GtuStore(c) ==
    /\ callers[c].pc = "gtu_store"
    /\ MayRun(c)
    /\ LET url == make_url(callers[c].url)
           f   == callers[c].fw
           new_url == NewUrl(url, fwds[f].port)
       IN  /\ tunnels' = (KeyOf(url) :> f) @@ tunnels
           /\ Return(c, FullUrl(new_url), LoggedUrl(new_url))
    /\ UNCHANGED <<policy, fwds, slotv, clients, life, calls, deaths>>

\* TunnelHandle.is_active turns false when the underlying channel dies
Die(f) ==
    /\ deaths < MaxDeaths
    /\ fwds[f].active
    /\ fwds' = [fwds EXCEPT ![f].active = FALSE]
    /\ deaths' = deaths + 1
    /\ UNCHANGED <<policy, tunnels, slotv, clients, callers, life, calls>>

(***************************************************************************)
(* The state once the application module is imported: app/infra/mysql.py   *)
(* builds its engine at import time from get_tunneled_url(main_url).       *)
(***************************************************************************)
EmptyMap == [k \in {} |-> 0]

NewClient(slot, addr) == [slot |-> slot, addr |-> addr, closed |-> 0]

\* engine = create_async_engine(get_tunneled_url(settings.mysql.main_url), ...)
ImportTunnels(cfg) ==
    IF GtuEntry(MYSQL_URL, cfg, EmptyMap, <<>>).kind = "create"
    THEN (KeyOf(make_url(MYSQL_URL)) :> 1)
    ELSE EmptyMap

ImportFwds(cfg) ==
    IF GtuEntry(MYSQL_URL, cfg, EmptyMap, <<>>).kind = "create"
    THEN <<NewForwarder(KeyOf(make_url(MYSQL_URL)), 1)>>
    ELSE <<>>

ImportEngineUrl(cfg) ==
    IF GtuEntry(MYSQL_URL, cfg, EmptyMap, <<>>).kind = "create"
    THEN FullUrl(NewUrl(make_url(MYSQL_URL), LocalPortOf(1)))
    ELSE MYSQL_URL

InitWith(cfgs) ==
    /\ policy \in cfgs
    /\ tunnels = ImportTunnels(policy)
    /\ fwds = ImportFwds(policy)
    /\ slotv = [s \in Slots |-> IF s = "mysql" THEN 1 ELSE 0]
    /\ clients = <<NewClient("mysql", ImportEngineUrl(policy))>>
    /\ callers = [c \in Callers |-> IdleCaller]
    /\ life = [pc |-> "serving", done |-> {}, items |-> <<>>, exc |-> None,
               calls0 |-> 0, busy0 |-> FALSE]
    /\ calls = 0
    /\ deaths = 0

\* the tunnel policy is off (most environments) or on with a full jump host
Init == InitWith({cfg \in Policies : cfg.ssh_host # "" /\ cfg.ssh_username # ""})

\* every tunnel policy, those with incomplete jump host credentials included
InitRewrite == InitWith(Policies)

(***************************************************************************)
(* A caller applies get_tunneled_url to a connection string: one of the    *)
(* strings below, or the string its previous call returned.                *)
(***************************************************************************)
UrlInputs ==
    { <<>>,
      MYSQL_URL, DORIS_URL, REDIS_URL, MONGO_PRIMARY_URI, MONGO_ATTENDENCE_URI,
      ES_HOSTS[1],
      <<"postgresql", "://", "bob", "@", "10.1.1.5", ":", "3306", "/", "other">>,
      <<"mysql", "://", "user", ":", "pw", "@", "10.1.1.5", "/", "db">>,
      <<"mysql", "://", "user", ":", "pw", "@", ":", "3306", "/", "db">>,
      <<"10.1.1.5", ":", "3306">>,
      <<"mysql", "://", "user", ":", "pw", "@", "10.1.1.5", ":", "port", "/", "db">> }

Busy(c) == callers[c].pc \notin {"idle", "returned"}

\* the callers are interchangeable: the second one is taken only while the
\* first one is busy
CanStart(c) ==
    /\ calls < MaxCalls
    /\ ~Busy(c)
    /\ c = "t2" => Busy("t1")

StartRewrite(c, u, src) ==
    /\ CanStart(c)
    /\ callers' = [callers EXCEPT ![c] =
          [IdleCaller EXCEPT !.op = "get_tunneled_url", !.pc = "gtu",
                             !.after = "returned", !.url = u, !.src = src]]
    /\ calls' = calls + 1
    /\ UNCHANGED <<policy, tunnels, fwds, slotv, clients, life, deaths>>

\* rewrite(u) for a connection string u
RewriteFresh(c) == \E u \in UrlInputs : StartRewrite(c, u, "fresh")

\* rewrite(rewrite(u)): the argument is what the caller's previous call returned
RewriteAgain(c) ==
    /\ callers[c].op = "get_tunneled_url"
    /\ callers[c].pc = "returned"
    /\ callers[c].exc = None
    /\ StartRewrite(c, callers[c].ret, "again")

TunnelSteps(c) ==
    \/ GtuEnter(c)
    \/ GtuStartOk(c)
    \/ GtuStartFail(c)
    \/ GtuStore(c)

NextRewrite ==
    \/ RewriteFresh("t1")
    \/ RewriteAgain("t1")
    \/ TunnelSteps("t1")
    \/ \E f \in 1..Len(fwds) : Die(f)

SpecRewrite == InitRewrite /\ [][NextRewrite]_vars

(***************************************************************************)
(* The accessors of the resource clients.  A coroutine of the event loop   *)
(* (get_redis_client, get_es, the handler calling get_doris_session) runs  *)
(* without interruption by other coroutines up to its yield; the synchro-  *)
(* nous Mongo accessors run on worker threads and interleave freely.       *)
(***************************************************************************)
LoopFree(c) ==
    /\ ~LifeHoldsLoop
    /\ \A d \in Callers \ {c} :
          callers[d].op \in LoopOps => callers[d].pc \in {"idle", "returned"}

\* the accessor hands client id to its caller
Yield(c, op, id) ==
    callers' = [callers EXCEPT ![c] =
        [IdleCaller EXCEPT !.op = op, !.pc = "returned", !.cli = id]]

\* the accessor ends with exception e before any call of get_tunneled_url
Fail(c, op, e) ==
    callers' = [callers EXCEPT ![c] =
        [IdleCaller EXCEPT !.op = op, !.pc = "returned", !.exc = e]]

\* the accessor calls get_tunneled_url(u) and goes on at label after
CallGtu(c, op, u, after, acc) ==
    callers' = [callers EXCEPT ![c] =
        [IdleCaller EXCEPT !.op = op, !.pc = "gtu", !.url = u,
                           !.after = after, !.acc = acc]]

\* the client construction of a slot: the global is assigned the new client
Construct(slot, addr) ==
    /\ clients' = Append(clients, NewClient(slot, addr))
    /\ slotv' = [slotv EXCEPT ![slot] = Len(clients) + 1]

\* get_redis_client and init_redis without the tests of lines 62 and 34: the
\* client is built on every call
RedisGetAlwaysInit(c) ==
    /\ CanStart(c)
    /\ LoopFree(c)
    /\ calls' = calls + 1
    /\ CallGtu(c, "get_redis_client", REDIS_URL, "redis_new", <<>>)
    /\ UNCHANGED <<policy, tunnels, fwds, slotv, clients, life, deaths>>

\* init_redis, line 37: raw_url = settings.redis.url
raw_url(cfg) == SettingOf(cfg, "redis", REDIS_URL)

\* init_redis without the test of lines 37-40: a blank url is used as it is
RedisGetIgnoringBlank(c) ==
    /\ CanStart(c)
    /\ LoopFree(c)
    /\ calls' = calls + 1
    /\ IF slotv["redis"] # 0 THEN Yield(c, "get_redis_client", slotv["redis"])
       ELSE CallGtu(c, "get_redis_client", raw_url(policy), "redis_new", <<>>)
    /\ UNCHANGED <<policy, tunnels, fwds, slotv, clients, life, deaths>>

\* redis_client.py: get_redis_client, lines 62-68, with init_redis, lines 34-43
RedisGet(c) ==
    /\ CanStart(c)
    /\ LoopFree(c)
    /\ calls' = calls + 1
    /\ IF slotv["redis"] # 0 THEN Yield(c, "get_redis_client", slotv["redis"])
       ELSE IF raw_url(policy) = <<>> THEN Fail(c, "get_redis_client", "RuntimeError")
       ELSE CallGtu(c, "get_redis_client", raw_url(policy), "redis_new", <<>>)
    /\ UNCHANGED <<policy, tunnels, fwds, slotv, clients, life, deaths>>

\* init_redis, lines 45-54, then get_redis_client, lines 65-68
RedisNew(c) ==
    /\ callers[c].pc = "redis_new"
    /\ MayRun(c)
    /\ Construct("redis", <<callers[c].ret>>)
    /\ Yield(c, "get_redis_client", Len(clients) + 1)
    /\ UNCHANGED <<policy, tunnels, fwds, life, calls, deaths>>

\* es_client.py: _parse_hosts of a list
parse_hosts(raw) == raw

\* init_es, line 43: raw_hosts = _parse_hosts(settings.es.hosts)
raw_hosts(cfg) == parse_hosts(SettingOf(cfg, "es", ES_HOSTS))

\* es_client.py: get_es, lines 62-71, with init_es, lines 40-52
EsGet(c) ==
    /\ CanStart(c)
    /\ LoopFree(c)
    /\ calls' = calls + 1
    /\ IF slotv["es"] # 0 THEN Yield(c, "get_es", slotv["es"])
       ELSE IF raw_hosts(policy) = <<>> THEN Fail(c, "get_es", "BizException")
       ELSE CallGtu(c, "get_es", raw_hosts(policy)[1], "es_host", <<>>)
    /\ UNCHANGED <<policy, tunnels, fwds, slotv, clients, life, deaths>>

\* init_es, lines 49-56: the loop over the hosts, then the client
EsHost(c) ==
    /\ callers[c].pc = "es_host"
    /\ MayRun(c)
    /\ LET tunneled_hosts == Append(callers[c].acc, callers[c].ret)
           hosts == raw_hosts(policy)
       IN  IF Len(tunneled_hosts) < Len(hosts)
           THEN /\ CallGtu(c, "get_es", hosts[Len(tunneled_hosts) + 1],
                           "es_host", tunneled_hosts)
                /\ UNCHANGED <<slotv, clients>>
           ELSE /\ Construct("es", tunneled_hosts)
                /\ Yield(c, "get_es", Len(clients) + 1)
    /\ UNCHANGED <<policy, tunnels, fwds, life, calls, deaths>>

\* init_doris, line 37: raw_url = settings.doris.url
doris_raw_url(cfg) == SettingOf(cfg, "doris", DORIS_URL)

\* doris.py: get_doris_session, line 126, with init_doris, lines 34-42
DorisGet(c) ==
    /\ CanStart(c)
    /\ LoopFree(c)
    /\ calls' = calls + 1
    /\ IF slotv["doris"] # 0 THEN Yield(c, "get_doris_session", slotv["doris"])
       ELSE IF doris_raw_url(policy) = <<>>
            THEN Fail(c, "get_doris_session", "RuntimeError")
       ELSE CallGtu(c, "get_doris_session", doris_raw_url(policy), "doris_new", <<>>)
    /\ UNCHANGED <<policy, tunnels, fwds, slotv, clients, life, deaths>>

\* init_doris, lines 46-105: the effective url is parsed and the engine built
DorisNew(c) ==
    /\ callers[c].pc = "doris_new"
    /\ MayRun(c)
    /\ IF make_url(callers[c].ret).ok
       THEN /\ Construct("doris", <<callers[c].ret>>)
            /\ Yield(c, "get_doris_session", Len(clients) + 1)
       ELSE /\ Raise(c, "ArgumentError")
            /\ UNCHANGED <<slotv, clients>>
    /\ UNCHANGED <<policy, tunnels, fwds, life, calls, deaths>>

\* the global a Mongo accessor reads
MongoSlot(op) ==
    IF op = "get_mongo_primary" THEN "mongo_primary" ELSE "mongo_attend"

MongoOps == {"get_mongo_primary", "get_mongo_attendence"}

\* mongo_client.py: get_mongo_primary, line 52 (get_mongo_attendence, line 62)
MongoGet(c, op) ==
    /\ CanStart(c)
    /\ calls' = calls + 1
    /\ callers' = [callers EXCEPT ![c] =
          [IdleCaller EXCEPT !.op = op,
              !.pc = IF slotv[MongoSlot(op)] = 0 THEN "im_primary" ELSE "m_check"]]
    /\ UNCHANGED <<policy, tunnels, fwds, slotv, clients, life, deaths>>

\* settings.mongo.primary_uri and settings.mongo.attendence_uri
primary_uri(cfg) == SettingOf(cfg, "mongo_primary", MONGO_PRIMARY_URI)

attendence_uri(cfg) == SettingOf(cfg, "mongo_attend", MONGO_ATTENDENCE_URI)

\* init_mongo, lines 36-37
ImPrimary(c) ==
    /\ callers[c].pc = "im_primary"
    /\ IF primary_uri(policy) # <<>> /\ slotv["mongo_primary"] = 0
       THEN callers' = [callers EXCEPT ![c].pc = "gtu", ![c].url = primary_uri(policy),
                                       ![c].after = "im_primary_new"]
       ELSE callers' = [callers EXCEPT ![c].pc = "im_attend"]
    /\ UNCHANGED <<policy, tunnels, fwds, slotv, clients, life, calls, deaths>>

\* init_mongo, lines 38-39
ImPrimaryNew(c) ==
    /\ callers[c].pc = "im_primary_new"
    /\ Construct("mongo_primary", <<callers[c].ret>>)
    /\ callers' = [callers EXCEPT ![c].pc = "im_attend", ![c].ret = <<>>]
    /\ UNCHANGED <<policy, tunnels, fwds, life, calls, deaths>>

\* init_mongo, lines 42-43
ImAttend(c) ==
    /\ callers[c].pc = "im_attend"
    /\ IF attendence_uri(policy) # <<>> /\ slotv["mongo_attend"] = 0
       THEN callers' = [callers EXCEPT ![c].pc = "gtu", ![c].url = attendence_uri(policy),
                                       ![c].after = "im_attend_new"]
       ELSE callers' = [callers EXCEPT ![c].pc = "m_check"]
    /\ UNCHANGED <<policy, tunnels, fwds, slotv, clients, life, calls, deaths>>

\* init_mongo, lines 44-45
ImAttendNew(c) ==
    /\ callers[c].pc = "im_attend_new"
    /\ Construct("mongo_attend", <<callers[c].ret>>)
    /\ callers' = [callers EXCEPT ![c].pc = "m_check", ![c].ret = <<>>]
    /\ UNCHANGED <<policy, tunnels, fwds, life, calls, deaths>>

\* get_mongo_primary, lines 55-56 (get_mongo_attendence, lines 65-66)
MongoCheck(c) ==
    /\ callers[c].pc = "m_check"
    /\ IF slotv[MongoSlot(callers[c].op)] = 0
       THEN Raise(c, "RuntimeError")
       ELSE callers' = [callers EXCEPT ![c].pc = "m_return"]
    /\ UNCHANGED <<policy, tunnels, fwds, slotv, clients, life, calls, deaths>>

\* get_mongo_primary, line 58: the global is read once more
MongoReturn(c) ==
    /\ callers[c].pc = "m_return"
    /\ IF slotv[MongoSlot(callers[c].op)] = 0
       THEN Raise(c, "AttributeError")
       ELSE Yield(c, callers[c].op, slotv[MongoSlot(callers[c].op)])
    /\ UNCHANGED <<policy, tunnels, fwds, slotv, clients, life, calls, deaths>>

AccessorSteps(c) ==
    \/ RedisGet(c)
    \/ RedisNew(c)
    \/ EsGet(c)
    \/ EsHost(c)
    \/ DorisGet(c)
    \/ DorisNew(c)
    \/ \E op \in MongoOps : MongoGet(c, op)
    \/ ImPrimary(c)
    \/ ImPrimaryNew(c)
    \/ ImAttend(c)
    \/ ImAttendNew(c)
    \/ MongoCheck(c)
    \/ MongoReturn(c)

(***************************************************************************)
(* app/main.py, lifespan: the shutdown sequence after the yield.  It is a  *)
(* coroutine of the event loop: other coroutines run only while it awaits. *)
(* An exception of a step ends the sequence (nothing catches it).          *)
(***************************************************************************)
LifeAt(pc) == life.pc = pc

\* the shutdown sequence with the tunnels torn down first
ShutdownStepsTunnelsFirst ==
    <<"close_all_tunnels", "close_mysql", "close_doris", "close_redis",
      "close_mongo", "close_es">>

\* lifespan, lines 58-65: the calls of the shutdown sequence in their order
ShutdownSteps ==
    <<"close_mysql", "close_doris", "close_redis", "close_mongo", "close_es",
      "close_all_tunnels">>

\* where lifespan goes on once the call named step has returned
StepAfter(step) ==
    LET i == CHOOSE j \in 1..Len(ShutdownSteps) : ShutdownSteps[j] = step
    IN  IF i < Len(ShutdownSteps) THEN ShutdownSteps[i + 1] ELSE "done"

LifeGoto(pc) == life' = [life EXCEPT !.pc = pc]

\* the call named step returns
LifeReturn(step) ==
    life' = [life EXCEPT !.pc = StepAfter(step), !.done = life.done \cup {step}]

NoLoopCaller ==
    \A d \in Callers : callers[d].op \in LoopOps => callers[d].pc \in {"idle", "returned"}

MarkClosed(id) == clients' = [clients EXCEPT ![id].closed = clients[id].closed + 1]

\* lines 52-55: the server stops and lifespan resumes after its yield
BeginShutdown ==
    /\ LifeAt("serving")
    /\ NoLoopCaller
    /\ life' = [life EXCEPT !.pc = ShutdownSteps[1], !.calls0 = calls,
                            !.busy0 = \E c \in Callers : Busy(c)]
    /\ UNCHANGED <<policy, tunnels, fwds, slotv, clients, callers, calls, deaths>>

\* line 58, await close_mysql(), and line 59, close_doris(): the engine of the
\* slot is released unless it was never built or is closed already
CloseEngine(slot, step) ==
    /\ LifeAt(step)
    /\ IF slotv[slot] # 0 /\ clients[slotv[slot]].closed = 0
       THEN MarkClosed(slotv[slot])
       ELSE UNCHANGED clients
    /\ LifeReturn(step)
    /\ UNCHANGED <<policy, tunnels, fwds, slotv, callers, calls, deaths>>

\* redis_client.py, close_redis, lines 80-82: close() is called and awaited
\* (es_client.py, close_es, lines 79-81)
CloseAsyncBegin(slot, step, awaiting) ==
    /\ LifeAt(step)
    /\ IF slotv[slot] # 0
       THEN MarkClosed(slotv[slot]) /\ LifeGoto(awaiting)
       ELSE UNCHANGED clients /\ LifeReturn(step)
    /\ UNCHANGED <<policy, tunnels, fwds, slotv, callers, calls, deaths>>

\* close_redis without line 83: the closed client stays in the global
CloseAsyncEndKeeping(slot, step, awaiting) ==
    /\ LifeAt(awaiting)
    /\ NoLoopCaller
    /\ LifeReturn(step)
    /\ UNCHANGED <<policy, tunnels, fwds, slotv, clients, callers, calls, deaths>>

\* close_redis, line 83 (close_es, line 82): the awaited close() returned
CloseAsyncEnd(slot, step, awaiting) ==
    /\ LifeAt(awaiting)
    /\ NoLoopCaller
    /\ slotv' = [slotv EXCEPT ![slot] = 0]
    /\ LifeReturn(step)
    /\ UNCHANGED <<policy, tunnels, fwds, clients, callers, calls, deaths>>

\* the awaited close() raises: the exception leaves close_redis and lifespan
CloseAsyncRaise(step, awaiting) ==
    /\ LifeAt(awaiting)
    /\ NoLoopCaller
    /\ life' = [life EXCEPT !.pc = "failed", !.exc = step]
    /\ UNCHANGED <<policy, tunnels, fwds, slotv, clients, callers, calls, deaths>>

\* mongo_client.py, close_mongo, lines 77-79: the primary client is closed
CloseMongoPrimary ==
    /\ LifeAt("close_mongo")
    /\ IF slotv["mongo_primary"] # 0
       THEN MarkClosed(slotv["mongo_primary"]) /\ LifeGoto("clear_primary")
       ELSE UNCHANGED clients /\ LifeGoto("close_attend")
    /\ UNCHANGED <<policy, tunnels, fwds, slotv, callers, calls, deaths>>

\* close_mongo, line 80
ClearMongoPrimary ==
    /\ LifeAt("clear_primary")
    /\ slotv' = [slotv EXCEPT !["mongo_primary"] = 0]
    /\ LifeGoto("close_attend")
    /\ UNCHANGED <<policy, tunnels, fwds, clients, callers, calls, deaths>>

\* close_mongo, lines 82-84: the attendence client is closed
CloseMongoAttend ==
    /\ LifeAt("close_attend")
    /\ IF slotv["mongo_attend"] # 0
       THEN MarkClosed(slotv["mongo_attend"]) /\ LifeGoto("clear_attend")
       ELSE UNCHANGED clients /\ LifeReturn("close_mongo")
    /\ UNCHANGED <<policy, tunnels, fwds, slotv, callers, calls, deaths>>

\* close_mongo, line 85
ClearMongoAttend ==
    /\ LifeAt("clear_attend")
    /\ slotv' = [slotv EXCEPT !["mongo_attend"] = 0]
    /\ LifeReturn("close_mongo")
    /\ UNCHANGED <<policy, tunnels, fwds, clients, callers, calls, deaths>>

\* the order of list(_TUNNELS.items()): the forwarders of the registry
RECURSIVE SeqOfSet(_)
SeqOfSet(S) ==
    IF S = {} THEN <<>>
    ELSE LET m == CHOOSE x \in S : \A y \in S : x <= y
         IN  <<m>> \o SeqOfSet(S \ {m})

TunnelItems(tun) == SeqOfSet({tun[k] : k \in DOMAIN tun})

\* ssh_tunnel.py, close_all_tunnels, line 100: the items are copied
CloseAllTunnels ==
    /\ LifeAt("close_all_tunnels")
    /\ life' = [life EXCEPT !.pc = "stop_tunnels", !.items = TunnelItems(tunnels)]
    /\ UNCHANGED <<policy, tunnels, fwds, slotv, clients, callers, calls, deaths>>

\* close_all_tunnels, lines 101-105: fwd.stop() of the next item
StopTunnel ==
    /\ LifeAt("stop_tunnels")
    /\ life.items # <<>>
    /\ LET f == Head(life.items) IN
       fwds' = [fwds EXCEPT ![f].stops = fwds[f].stops + 1, ![f].active = FALSE]
    /\ life' = [life EXCEPT !.items = Tail(life.items)]
    /\ UNCHANGED <<policy, tunnels, slotv, clients, callers, calls, deaths>>

\* close_all_tunnels without the try/except of lines 101-107: the exception
\* of fwd.stop() leaves the function
StopTunnelRaiseAborting ==
    /\ LifeAt("stop_tunnels")
    /\ life.items # <<>>
    /\ LET f == Head(life.items) IN
       fwds' = [fwds EXCEPT ![f].stops = fwds[f].stops + 1]
    /\ life' = [life EXCEPT !.pc = "failed", !.exc = "close_all_tunnels",
                            !.items = <<>>]
    /\ UNCHANGED <<policy, tunnels, slotv, clients, callers, calls, deaths>>

\* close_all_tunnels, lines 105-107: fwd.stop() raises, which is logged
StopTunnelRaise ==
    /\ LifeAt("stop_tunnels")
    /\ life.items # <<>>
    /\ LET f == Head(life.items) IN
       fwds' = [fwds EXCEPT ![f].stops = fwds[f].stops + 1]
    /\ life' = [life EXCEPT !.items = Tail(life.items)]
    /\ UNCHANGED <<policy, tunnels, slotv, clients, callers, calls, deaths>>

\* close_all_tunnels, line 108: _TUNNELS.clear()
ClearTunnels ==
    /\ LifeAt("stop_tunnels")
    /\ life.items = <<>>
    /\ tunnels' = EmptyMap
    /\ LifeReturn("close_all_tunnels")
    /\ UNCHANGED <<policy, fwds, slotv, clients, callers, calls, deaths>>

Shutdown ==
    \/ BeginShutdown
    \/ CloseEngine("mysql", "close_mysql")
    \/ CloseEngine("doris", "close_doris")
    \/ CloseAsyncBegin("redis", "close_redis", "await_redis")
    \/ CloseAsyncEnd("redis", "close_redis", "await_redis")
    \/ CloseAsyncRaise("close_redis", "await_redis")
    \/ CloseMongoPrimary
    \/ ClearMongoPrimary
    \/ CloseMongoAttend
    \/ ClearMongoAttend
    \/ CloseAsyncBegin("es", "close_es", "await_es")
    \/ CloseAsyncEnd("es", "close_es", "await_es")
    \/ CloseAsyncRaise("close_es", "await_es")
    \/ CloseAllTunnels
    \/ StopTunnel
    \/ StopTunnelRaise
    \/ ClearTunnels

(***************************************************************************)
(* Spec: the serving process, two callers at a time.                       *)
(* SpecShutdown: one caller and the shutdown sequence of lifespan.         *)
(***************************************************************************)
Next ==
    \/ \E c \in Callers : AccessorSteps(c)
    \/ \E c \in Callers : TunnelSteps(c)
    \/ \E f \in 1..Len(fwds) : Die(f)

Spec == Init /\ [][Next]_vars

NextShutdown ==
    \/ AccessorSteps("t1")
    \/ TunnelSteps("t1")
    \/ Shutdown
    \/ \E f \in 1..Len(fwds) : Die(f)

SpecShutdown == Init /\ [][NextShutdown]_vars

(***************************************************************************)
(* SpecRelease: get_tunneled_url and close_all_tunnels called one after    *)
(* the other, close_all_tunnels any number of times.                       *)
(***************************************************************************)
ReleaseRunning == life.pc \in {"close_all_tunnels", "stop_tunnels"}

\* close_all_tunnels() is called
CallCloseAllTunnels ==
    /\ life.pc \in {"serving", "done"}
    /\ ~Busy("t1")
    /\ LifeGoto("close_all_tunnels")
    /\ UNCHANGED <<policy, tunnels, fwds, slotv, clients, callers, calls, deaths>>

NextRelease ==
    \/ (~ReleaseRunning /\ RewriteFresh("t1"))
    \/ TunnelSteps("t1")
    \/ CallCloseAllTunnels
    \/ CloseAllTunnels
    \/ StopTunnel
    \/ StopTunnelRaise
    \/ ClearTunnels
    \/ \E f \in 1..Len(fwds) : Die(f)

SpecRelease == Init /\ [][NextRelease]_vars

(***************************************************************************)
(* SpecClose: the accessors and close_redis, close_mongo, close_es called  *)
(* one after the other, each close any number of times.  An exception of   *)
(* a close reaches the code that called it, which may call close again.    *)
(***************************************************************************)
\* number of releases of one client in one behaviour
MaxReleases == 2

CloseCalls == {"close_redis", "close_mongo", "close_es"}

\* no close function is running
CloseIdle ==
    life.pc \in {"serving", "done", "failed"}
                \cup {ShutdownSteps[i] : i \in 1..Len(ShutdownSteps)}

\* close_redis(), close_mongo() or close_es() is called
CallClose(step) ==
    /\ CloseIdle
    /\ life.pc # step
    /\ ~Busy("t1")
    /\ \A i \in 1..Len(clients) : clients[i].closed < MaxReleases
    /\ LifeGoto(step)
    /\ UNCHANGED <<policy, tunnels, fwds, slotv, clients, callers, calls, deaths>>

NextClose ==
    \/ AccessorSteps("t1")
    \/ TunnelSteps("t1")
    \/ \E step \in CloseCalls : CallClose(step)
    \/ CloseAsyncBegin("redis", "close_redis", "await_redis")
    \/ CloseAsyncEnd("redis", "close_redis", "await_redis")
    \/ CloseAsyncRaise("close_redis", "await_redis")
    \/ CloseMongoPrimary
    \/ ClearMongoPrimary
    \/ CloseMongoAttend
    \/ ClearMongoAttend
    \/ CloseAsyncBegin("es", "close_es", "await_es")
    \/ CloseAsyncEnd("es", "close_es", "await_es")
    \/ CloseAsyncRaise("close_es", "await_es")

SpecClose == Init /\ [][NextClose]_vars

(***************************************************************************)
(* SpecMemo: one caller calls the accessors one after the other; nothing   *)
(* is closed.                                                              *)
(***************************************************************************)
\* qiniu_client.py: get_qiniu_client, lines 37-50
QiniuGet(c) ==
    /\ CanStart(c)
    /\ calls' = calls + 1
    /\ IF slotv["qiniu"] # 0
       THEN /\ Yield(c, "get_qiniu_client", slotv["qiniu"])
            /\ UNCHANGED <<slotv, clients>>
       ELSE /\ Construct("qiniu", <<>>)
            /\ Yield(c, "get_qiniu_client", Len(clients) + 1)
    /\ UNCHANGED <<policy, tunnels, fwds, life, deaths>>

NextMemo ==
    \/ AccessorSteps("t1")
    \/ TunnelSteps("t1")
    \/ QiniuGet("t1")
    \/ \E f \in 1..Len(fwds) : Die(f)

SpecMemo == Init /\ [][NextMemo]_vars

(***************************************************************************)
(* SpecBlank: a deployment that leaves some connection strings blank; one  *)
(* caller calls the accessors one after the other.                         *)
(***************************************************************************)
BlankPolicies ==
    {[cfg EXCEPT !.blank = B] :
        cfg \in {p \in Policies : p.ssh_host # "" /\ p.ssh_username # ""},
        B \in SUBSET Optional}

InitBlank == InitWith(BlankPolicies)

NextBlank ==
    \/ AccessorSteps("t1")
    \/ TunnelSteps("t1")
    \/ \E f \in 1..Len(fwds) : Die(f)

SpecBlank == InitBlank /\ [][NextBlank]_vars

(***************************************************************************)
(* SpecSession: the session-scoped accessors.  get_db (mysql.py) is an     *)
(* async dependency: the request awaits inside its unit of work, so units  *)
(* of two requests overlap.  get_doris_session (doris.py) is a synchronous *)
(* context manager used inside a coroutine: its unit has no await.         *)
(***************************************************************************)
SessionOps == {"get_db", "get_doris_session"}

SessionSlot(op) == IF op = "get_db" THEN "db_session" ELSE "doris_session"

\* the ways a unit of work ends: normally, with a business error, or with
\* any other exception
UnitEnds == {None, "BizException", "Exception"}

\* mysql.py, get_db, lines 64-66: async with AsyncSessionLocal() as session,
\* then yield session
GetDb(c) ==
    /\ CanStart(c)
    /\ LoopFree(c)
    /\ calls' = calls + 1
    /\ clients' = Append(clients, NewClient("db_session", <<>>))
    /\ callers' = [callers EXCEPT ![c] =
          [IdleCaller EXCEPT !.op = "get_db", !.pc = "unit",
                             !.cli = Len(clients) + 1]]
    /\ UNCHANGED <<policy, tunnels, fwds, slotv, life, deaths>>

\* doris.py, get_doris_session, lines 129-132: the engine is there, a new
\* session is made and yielded
DorisSession(c) ==
    /\ callers[c].op = "get_doris_session"
    /\ callers[c].pc = "returned"
    /\ callers[c].exc = None
    /\ callers[c].cli # 0 /\ callers[c].cli = slotv["doris"]
    /\ LoopFree(c)
    /\ clients' = Append(clients, NewClient("doris_session", <<>>))
    /\ callers' = [callers EXCEPT ![c].pc = "unit", ![c].cli = Len(clients) + 1]
    /\ UNCHANGED <<policy, tunnels, fwds, slotv, life, calls, deaths>>

\* get_doris_session without try/finally: the session is closed only when
\* the unit of work ends normally
UnitEndLeaking(c, e) ==
    /\ callers[c].op \in SessionOps
    /\ callers[c].pc = "unit"
    /\ MayRun(c)
    /\ IF e = None THEN MarkClosed(callers[c].cli) ELSE UNCHANGED clients
    /\ callers' = [callers EXCEPT ![c] =
          [IdleCaller EXCEPT !.op = callers[c].op, !.pc = "returned", !.exc = e]]
    /\ UNCHANGED <<policy, tunnels, fwds, slotv, life, calls, deaths>>

\* the unit of work ends with e: get_doris_session, lines 133-134 (finally:
\* session.close()); get_db, lines 64-69 (the exception is logged and raised
\* again, async with closes the session)
UnitEnd(c, e) ==
    /\ callers[c].op \in SessionOps
    /\ callers[c].pc = "unit"
    /\ MayRun(c)
    /\ MarkClosed(callers[c].cli)
    /\ callers' = [callers EXCEPT ![c] =
          [IdleCaller EXCEPT !.op = callers[c].op, !.pc = "returned", !.exc = e]]
    /\ UNCHANGED <<policy, tunnels, fwds, slotv, life, calls, deaths>>

NextSession ==
    \/ \E c \in Callers : GetDb(c)
    \/ \E c \in Callers : DorisGet(c)
    \/ \E c \in Callers : DorisNew(c)
    \/ \E c \in Callers : TunnelSteps(c)
    \/ \E c \in Callers : DorisSession(c)
    \/ \E c \in Callers, e \in UnitEnds : UnitEnd(c, e)

SpecSession == Init /\ [][NextSession]_vars

(***************************************************************************)
(* http_client.py: request().  A caller is a coroutine that runs           *)
(* request(method, url, retries=r); it gives up the event loop at the      *)
(* await of client.request (line 57) and at the await of the sleep (line   *)
(* 74).  Its frame keeps the locals retries, attempt and last_exc, and     *)
(* records the attempts sent, the outcome of each, and the delays slept.   *)
(* A returned value is <<"Response", outcome, n>>, an exception <<kind, n>>,*)
(* n the attempt that produced it; <<>> is None.                           *)
(***************************************************************************)
MaxRetries == 2

\* retries passed by the caller; with -1 range(retries + 1) is empty
RetryArgs == -1 .. MaxRetries

\* what an attempt comes to: a response with a status, a network error
\* (httpx.RequestError), or any other exception raised by client.request
Statuses == {200, 404, 503}
Outcomes ==
    [kind : {"Response"}, status : Statuses]
        \cup [kind : {"RequestError", "Exception"}, status : {0}]

Resp(status) == [kind |-> "Response", status |-> status]
NetErr == [kind |-> "RequestError", status |-> 0]

HttpIdle ==
    [op |-> "none", pc |-> "idle", retries |-> 0, attempt |-> 0,
     last_exc |-> <<>>, sent |-> 0, outs |-> <<>>, slept |-> <<>>,
     ret |-> <<>>, exc |-> <<>>]

\* resp.is_success, the test of raise_for_status (line 63)
IsSuccess(status) == status \div 100 = 2

\* the exception the try body (lines 57-64) raises on outcome o of attempt n
AttemptError(o, n) ==
    IF o.kind = "Response"
    THEN IF IsSuccess(o.status) THEN <<>> ELSE <<"HTTPStatusError", n>>
    ELSE <<o.kind, n>>

\* an except clause (line 65) that catches every exception
CaughtAll(e) == TRUE

\* except (httpx.RequestError, httpx.HTTPStatusError) (line 65)
Caught(e) == e[1] \in {"RequestError", "HTTPStatusError"}

\* the head of the for loop (line 54) up to the await of line 57, or past
\* the loop the assert and the raise of lines 76-77
Iterate(f) ==
    IF f.attempt < f.retries + 1
    THEN [f EXCEPT !.pc = "await_request", !.sent = @ + 1]
    ELSE [f EXCEPT !.pc = "returned",
                   !.exc = IF f.last_exc = <<>> THEN <<"AssertionError", 0>>
                           ELSE f.last_exc]

\* request(method, url, retries=r), lines 48-57
HttpCall(c, r) ==
    /\ callers[c].pc \in {"idle", "returned"}
    /\ calls < MaxCalls
    /\ calls' = calls + 1
    /\ callers' = [callers EXCEPT ![c] =
           Iterate([HttpIdle EXCEPT !.op = "request", !.retries = r])]
    /\ UNCHANGED <<policy, tunnels, fwds, slotv, clients, life, deaths>>

\* client.request completes with outcome o: lines 58-74
HttpResponse(c, o) ==
    /\ callers[c].pc = "await_request"
    /\ LET f == callers[c]
           n == f.attempt + 1
           e == AttemptError(o, n)
           g == [f EXCEPT !.outs = Append(@, o)]
       IN  callers' = [callers EXCEPT ![c] =
               IF e = <<>>
               THEN [g EXCEPT !.pc = "returned", !.ret = <<"Response", o, n>>]
               ELSE IF ~Caught(e)
               THEN [g EXCEPT !.pc = "returned", !.exc = e]
               ELSE IF f.attempt >= f.retries
               THEN [g EXCEPT !.pc = "returned", !.last_exc = e, !.exc = e]
               ELSE [g EXCEPT !.pc = "sleep", !.last_exc = e,
                              !.slept = Append(@, 2 * (f.attempt + 1))]]
    /\ UNCHANGED <<policy, tunnels, fwds, slotv, clients, life, calls, deaths>>

\* asyncio.sleep(0.2 * (attempt + 1)) completes (line 74): next iteration
HttpWake(c) ==
    /\ callers[c].pc = "sleep"
    /\ callers' = [callers EXCEPT ![c] =
           Iterate([callers[c] EXCEPT !.attempt = @ + 1])]
    /\ UNCHANGED <<policy, tunnels, fwds, slotv, clients, life, calls, deaths>>

HttpSteps(c) ==
    \/ \E o \in Outcomes : HttpResponse(c, o)
    \/ HttpWake(c)

InitHttp ==
    /\ policy \in {cfg \in Policies : cfg.ssh_host # "" /\ cfg.ssh_username # ""}
    /\ tunnels = ImportTunnels(policy)
    /\ fwds = ImportFwds(policy)
    /\ slotv = [s \in Slots |-> IF s = "mysql" THEN 1 ELSE 0]
    /\ clients = <<NewClient("mysql", ImportEngineUrl(policy))>>
    /\ callers = [c \in Callers |-> HttpIdle]
    /\ life = [pc |-> "serving", done |-> {}, items |-> <<>>, exc |-> None,
               calls0 |-> 0, busy0 |-> FALSE]
    /\ calls = 0
    /\ deaths = 0

NextHttp ==
    \/ \E c \in Callers, r \in RetryArgs : HttpCall(c, r)
    \/ \E c \in Callers, o \in Outcomes : HttpResponse(c, o)
    \/ \E c \in Callers : HttpWake(c)

\* the transport's timeout ends every client.request and the event loop
\* ends every sleep: a request in progress keeps taking steps
SpecHttp ==
    /\ InitHttp
    /\ [][NextHttp]_vars
    /\ \A c \in Callers : WF_vars(HttpSteps(c))

(***************************************************************************)
(* llm_client.py and the routes that use it.  In the specifications of     *)
(* this part policy.llm is settings.llm, slotv holds _llm_clients (one     *)
(* entry per key, 0 when the key is absent) and _vision_client, clients    *)
(* the client objects constructed, and a caller is a coroutine in a        *)
(* factory call, in a chat()/analyze_image() call, or in a route handler.  *)
(* A JSON value is a tuple whose first element is its type: <<"null">>,    *)
(* <<"str", s>>, <<"list", items>>, <<"obj", pairs>> with pairs a          *)
(* sequence of <<key, value>>.  An exception is a record of its class,     *)
(* its code (BizException, HTTPException) and its text.                    *)
(***************************************************************************)
JNull == <<"null">>
JStr(s) == <<"str", s>>
JList(items) == <<"list", items>>
JObj(pairs) == <<"obj", pairs>>

\* Python's truth value of a JSON value
Truthy(v) ==
    CASE v[1] = "null" -> FALSE
      [] v[1] = "str" -> v[2] # ""
      [] OTHER -> v[2] # <<>>

HasKey(d, k) == d[1] = "obj" /\ \E i \in 1 .. Len(d[2]) : d[2][i][1] = k
ValueOf(d, k) == d[2][CHOOSE i \in 1 .. Len(d[2]) : d[2][i][1] = k][2]

\* d[k], d.get(k) and v[0]: <<"ok", value>>, or <<"raise">> for the
\* KeyError, IndexError, TypeError or AttributeError of Python.  (The first
\* character of a string is a string: the subscript that follows raises.)
Subscript(d, k) == IF HasKey(d, k) THEN <<"ok", ValueOf(d, k)>> ELSE <<"raise">>
DictGet(d, k) ==
    IF d[1] # "obj" THEN <<"raise">>
    ELSE IF HasKey(d, k) THEN <<"ok", ValueOf(d, k)>> ELSE <<"ok", JNull>>
Item0(v) ==
    IF v[1] = "list" /\ v[2] # <<>> THEN <<"ok", v[2][1]>> ELSE <<"raise">>

\* exceptions.py: ErrorCode and BizException; the other exception classes
SUCCESS == 0
BUSINESS_ERROR == 10000
VALIDATION_ERROR == 10001
INTERNAL_ERROR == 50000

NoExc == [cls |-> "None", code |-> 0, msg |-> ""]
BizException(code, msg) == [cls |-> "BizException", code |-> code, msg |-> msg]
HTTPException(status, detail) ==
    [cls |-> "HTTPException", code |-> status, msg |-> detail]
OtherException(cls, msg) == [cls |-> cls, code |-> 0, msg |-> msg]

\* str(e): BizException.__str__ (exceptions.py line 35), else the text
StrOf(e) ==
    IF e.cls = "BizException" THEN "[" \o ToString(e.code) \o "] " \o e.msg
    ELSE e.msg

\* the texts of the business errors of llm_client.py
UnsupportedText(provider) == "unsupported LLM provider: " \o provider

\* config.py: the fields LlmSettings declares; reading any other attribute
\* of settings.llm raises AttributeError
LlmFields ==
    {"provider", "endpoint", "openai_base_url", "openai_api_key",
     "dashscope_api_key", "dashscope_vision_api_key",
     "dashscope_backup_api_key", "volc_api_key", "volc_base_url",
     "volc_model", "default_user"}

NoAttribute(name) ==
    OtherException("AttributeError",
                   "'LlmSettings' object has no attribute '" \o name \o "'")

\* settings.llm: None and the empty string are both written ""
LlmSettingsSet ==
    [provider : {"none", "dashscope", "dify"},
     endpoint : {""},
     dashscope_vision_api_key : {"", "sk-vision"},
     dashscope_backup_api_key : {""},
     volc_api_key : {"", "sk-volc"},
     volc_base_url : {"https://ark/api/v3"},
     volc_model : {"ep-1"},
     default_user : {"svc"}]

\* the first of the names, read in this order, that settings.llm lacks
RECURSIVE FirstUndeclared(_)
FirstUndeclared(names) ==
    IF names = <<>> THEN ""
    ELSE IF names[1] \notin LlmFields THEN names[1]
    ELSE FirstUndeclared(Tail(names))

\* the constructors: no __init__ tests its arguments
DefaultEndpoint ==
    "https://dashscope.aliyuncs.com/compatible-mode/v1/chat/completions"

NoClient == [cls |-> "None", endpoint |-> "", api_key |-> "", model |-> ""]

DifyLlmClient(endpoint, api_key) ==
    [cls |-> "DifyLlmClient", endpoint |-> endpoint, api_key |-> api_key,
     model |-> ""]

DashScopeLlmClient(endpoint, api_key, model) ==
    [cls |-> "DashScopeLlmClient",
     endpoint |-> IF endpoint # "" THEN endpoint ELSE DefaultEndpoint,
     api_key |-> api_key,
     model |-> IF model # "" THEN model ELSE "qwen-plus"]

DashScopeVisionClient(endpoint, api_key, model) ==
    [cls |-> "DashScopeVisionClient",
     endpoint |-> IF endpoint # "" THEN endpoint ELSE DefaultEndpoint,
     api_key |-> api_key, model |-> model]

VolcEngineLlmClient(base_url, api_key, model) ==
    [cls |-> "VolcEngineLlmClient", endpoint |-> base_url \o "/chat/completions",
     api_key |-> api_key, model |-> model]

\* the keys _llm_clients can get, and the slot of _vision_client
LlmKeys == {"dify", "dashscope", "volcengine", "volc"}
LlmSlots == LlmKeys \cup {"vision"}

\* str.lower() on the provider ids used here
Lower(p) ==
    CASE p = "DashScope" -> "dashscope"
      [] p = "Unknown" -> "unknown"
      [] OTHER -> p

\* settings.llm.<name>; an attribute left unset is None
Attr(cfg, name) == IF name \in DOMAIN cfg THEN cfg[name] ELSE ""

\* the attributes of settings.llm a construction reads, in order (lines
\* 384-387, 394-399, 406-411 and 432-443)
ReadsOf(cfg, p) ==
    CASE p = "dify" -> <<"endpoint", "api_key", "timeout">>
      [] p = "dashscope" ->
            <<"api_key">>
            \o (IF Attr(cfg, "api_key") = "" THEN <<"dashscope_backup_api_key">>
                ELSE <<>>)
            \o <<"endpoint", "model", "timeout">>
      [] p \in {"volcengine", "volc"} ->
            <<"volc_base_url", "volc_api_key", "volc_model",
              "volc_temperature", "volc_timeout">>
      [] p = "vision" ->
            <<"dashscope_vision_api_key">>
            \o (IF Attr(cfg, "dashscope_vision_api_key") = ""
                THEN <<"api_key">>
                     \o (IF Attr(cfg, "api_key") = ""
                         THEN <<"dashscope_backup_api_key">> ELSE <<>>)
                ELSE <<>>)
            \o <<"dashscope_vision_model", "endpoint", "timeout">>

\* a or b of Python on strings
Or(a, b) == IF a # "" THEN a ELSE b

\* the client a construction makes from settings.llm
ConstructLlm(cfg, p) ==
    CASE p = "dify" ->
            DifyLlmClient(Attr(cfg, "endpoint"), Attr(cfg, "api_key"))
      [] p = "dashscope" ->
            DashScopeLlmClient(Attr(cfg, "endpoint"),
                Or(Attr(cfg, "api_key"), Attr(cfg, "dashscope_backup_api_key")),
                Attr(cfg, "model"))
      [] p \in {"volcengine", "volc"} ->
            VolcEngineLlmClient(Attr(cfg, "volc_base_url"),
                Attr(cfg, "volc_api_key"), Attr(cfg, "volc_model"))
      [] p = "vision" ->
            DashScopeVisionClient(Attr(cfg, "endpoint"),
                Or(Attr(cfg, "dashscope_vision_api_key"),
                   Or(Attr(cfg, "api_key"),
                      Attr(cfg, "dashscope_backup_api_key"))),
                Attr(cfg, "dashscope_vision_model"))

\* the error of an unsupported provider, as a generic exception
UnsupportedAsGeneric(cfg) ==
    OtherException("ValueError", UnsupportedText(cfg.provider))

\* lines 417-420: the error of an unsupported provider
Unsupported(cfg) == BizException(BUSINESS_ERROR, UnsupportedText(cfg.provider))

\* the outcome of a factory call: the exception raised or the client
\* returned, and the memo and the objects it leaves
FactoryOutcome(exc, ret, mem, objs) ==
    [exc |-> exc, ret |-> ret, mem |-> mem, objs |-> objs]

\* the memoizing construction of slot p (lines 380-415 and 429-446)
MemoOrConstruct(cfg, mem, objs, p) ==
    IF mem[p] # 0 THEN FactoryOutcome(NoExc, mem[p], mem, objs)
    ELSE LET u == FirstUndeclared(ReadsOf(cfg, p))
         IN  IF u # "" THEN FactoryOutcome(NoAttribute(u), 0, mem, objs)
             ELSE LET made == Append(objs, ConstructLlm(cfg, p))
                  IN  FactoryOutcome(NoExc, Len(made),
                                     [mem EXCEPT ![p] = Len(made)], made)

\* get_llm_client(provider), lines 370-420; "" is provider=None
get_llm_client(cfg, mem, objs, provider) ==
    LET p == Lower(Or(provider, cfg.provider))
    IN  IF p \in LlmKeys THEN MemoOrConstruct(cfg, mem, objs, p)
        ELSE FactoryOutcome(Unsupported(cfg), 0, mem, objs)

\* get_dashscope_vision_client(), lines 423-446
get_dashscope_vision_client(cfg, mem, objs) ==
    MemoOrConstruct(cfg, mem, objs, "vision")

\* the test at the head of chat() / analyze_image() (lines 40, 102, 201,
\* 309): the business error it raises, or NoExc
CallTimeCheck(self) ==
    CASE self.cls = "DifyLlmClient" ->
            IF self.endpoint = "" \/ self.api_key = ""
            THEN BizException(BUSINESS_ERROR, "LLM(Dify) endpoint or api_key not configured") ELSE NoExc
      [] self.cls = "DashScopeLlmClient" ->
            IF self.api_key = ""
            THEN BizException(BUSINESS_ERROR, "LLM(DashScope) api_key not configured") ELSE NoExc
      [] self.cls = "DashScopeVisionClient" ->
            IF self.api_key = ""
            THEN BizException(BUSINESS_ERROR, "DashScope vision model api_key not configured") ELSE NoExc
      [] self.cls = "VolcEngineLlmClient" ->
            IF self.api_key = "" \/ self.model = ""
            THEN BizException(BUSINESS_ERROR, "LLM(VolcEngine) api_key or model not configured") ELSE NoExc

BadFormatText(self) ==
    CASE self.cls = "DashScopeLlmClient" -> "LLM(DashScope) unexpected response format"
      [] self.cls = "DashScopeVisionClient" -> "DashScope vision model unexpected response format"
      [] self.cls = "VolcEngineLlmClient" -> "LLM(VolcEngine) unexpected response format"

NoContentText(self) ==
    CASE self.cls = "DashScopeLlmClient" -> "LLM(DashScope) returned no valid content"
      [] self.cls = "DashScopeVisionClient" -> "DashScope vision model returned no valid content"
      [] self.cls = "VolcEngineLlmClient" -> "LLM(VolcEngine) returned no valid content"

\* what post() comes to (http_client.request behind it): the error of the
\* last attempt, or a 2xx response with its body, JSON or not
NoOutcome == [kind |-> "None", body |-> JNull]
Message(pairs) ==
    JObj(<<<<"choices", JList(<<JObj(<<<<"message", JObj(pairs)>>>>)>>)>>>>)
Bodies ==
    {<<"raw", "<html>">>,
     JList(<<>>),
     JObj(<<>>),
     JObj(<<<<"choices", JList(<<>>)>>>>),
     JObj(<<<<"choices", JList(<<JObj(<<>>)>>)>>>>),
     JObj(<<<<"choices", JList(<<JObj(<<<<"message", JNull>>>>)>>)>>>>),
     Message(<<>>),
     Message(<<<<"content", JStr("")>>>>),
     Message(<<<<"content", JStr("hello")>>>>),
     Message(<<<<"content", JStr("{\"name\": \"A\"}")>>>>),
     Message(<<<<"content",
                 JList(<<JObj(<<<<"type", JStr("text")>>,
                                 <<"text", JStr("hello")>>>>)>>)>>>>),
     JObj(<<<<"answer", JStr("hello")>>>>),
     JObj(<<<<"answer", JStr("")>>, <<"output_text", JStr("hello")>>>>),
     JObj(<<<<"answer", JStr("")>>>>)}
PostOutcomes ==
    [kind : {"HTTPStatusError", "RequestError"}, body : {JNull}]
        \cup [kind : {"Response"}, body : Bodies]

ChatOutcome(exc, ret) == [exc |-> exc, ret |-> ret]

\* lines 136-154, 265-283, 343-361: choices[0].message.content of data
Extract(self, data) ==
    LET choices == Subscript(data, "choices")
        first == IF choices[1] = "ok" THEN Item0(choices[2]) ELSE <<"raise">>
        message == IF first[1] = "ok" THEN Subscript(first[2], "message")
                   ELSE <<"raise">>
        got == IF message[1] = "ok" THEN DictGet(message[2], "content")
               ELSE <<"raise">>
    IN  IF got[1] = "raise"
        THEN ChatOutcome(BizException(BUSINESS_ERROR, BadFormatText(self)), JNull)
        ELSE LET content == IF Truthy(got[2]) THEN got[2] ELSE JStr("")
             IN  IF ~Truthy(content)
                 THEN ChatOutcome(
                          BizException(BUSINESS_ERROR, NoContentText(self)), JNull)
                 ELSE ChatOutcome(NoExc, content)

\* lines 65-74: DifyLlmClient takes answer or output_text of data
ExtractDify(data) ==
    LET a == DictGet(data, "answer")
        b == DictGet(data, "output_text")
    IN  IF a[1] = "raise"
        THEN ChatOutcome(OtherException("AttributeError",
                             "object has no attribute 'get'"), JNull)
        ELSE LET answer == IF Truthy(a[2]) THEN a[2] ELSE b[2]
             IN  IF ~Truthy(answer)
                 THEN ChatOutcome(BizException(BUSINESS_ERROR, "LLM(Dify) returned no valid answer field"), JNull)
                 ELSE ChatOutcome(NoExc, answer)

\* chat() / analyze_image() after the await of post(): post raised, or
\* resp.json() raises, or the answer is taken from the data
AfterPost(self, o) ==
    IF o.kind # "Response"
    THEN ChatOutcome(OtherException(o.kind, "error of the last attempt"), JNull)
    ELSE IF o.body[1] = "raw"
    THEN ChatOutcome(OtherException("JSONDecodeError", "Expecting value"), JNull)
    ELSE IF self.cls = "DifyLlmClient" THEN ExtractDify(o.body)
    ELSE Extract(self, o.body)

\* responses.py and the JSONResponse of a handler: the HTTP status and the
\* fields of ApiResponse
Response(status, code, msg, data) ==
    [status |-> status, code |-> code, msg |-> msg, data |-> data]
NoResp == Response(0, 0, "", JNull)
success(data) == Response(200, SUCCESS, "ok", data)

\* main.py lines 86-132: the exception handlers of create_app
ExceptionHandlers(e) ==
    CASE e.cls = "BizException" -> Response(200, e.code, e.msg, JNull)
      [] e.cls = "RequestValidationError" ->
            Response(422, VALIDATION_ERROR, "request validation failed", JList(<<JStr(e.msg)>>))
      [] e.cls = "HTTPException" -> Response(e.code, e.code, e.msg, JNull)
      [] OTHER -> Response(500, INTERNAL_ERROR, "internal server error", JNull)

\* the routes: health.py, llm_demo.py, img_analyzer.py, idcard_analyzer.py
LlmRoutes == {"llm_chat", "llm_chat_volc", "llm_vision_dashscope"}
ImgRoutes == {"analyze_image", "analyze_idcard"}
Routes == {"health"} \cup LlmRoutes \cup ImgRoutes

\* json.loads on the answer texts of the model (none starts with ```)
JsonLoads(text) ==
    IF text = "{\"name\": \"A\"}" THEN <<"ok", JObj(<<<<"name", JStr("A")>>>>)>>
    ELSE <<"raise">>

\* img_analyzer.py lines 64-95 (idcard_analyzer.py lines 79-110): the try
\* block around analyze_image, given what analyze_image came to
ImgTry(out) ==
    IF out.exc # NoExc
    THEN ChatOutcome(HTTPException(500, StrOf(out.exc)), JNull)
    ELSE IF out.ret[1] # "str"
    THEN ChatOutcome(HTTPException(500, "object has no attribute 'strip'"), JNull)
    ELSE LET data == JsonLoads(out.ret[2])
         IN  IF data[1] = "raise"
             THEN ChatOutcome(
                      HTTPException(400, "JSON parse failed: Expecting value"),
                      JNull)
             ELSE ChatOutcome(NoExc, data[2])

\* the rest of a route handler once chat() / analyze_image() has ended: the
\* exception that leaves the handler, or the data it returns
HandlerEnd(route, out) ==
    IF route \in ImgRoutes THEN ImgTry(out)
    ELSE IF out.exc # NoExc THEN out
    ELSE ChatOutcome(NoExc, JObj(<<<<"answer", out.ret>>>>))

\* the response to a request whose handler ended with h
Respond(h) == IF h.exc = NoExc THEN success(h.ret) ELSE ExceptionHandlers(h.exc)

RouteEnd(route, out) == Respond(HandlerEnd(route, out))

\* the frame of a caller of this part
LlmIdle ==
    [op |-> "none", pc |-> "idle", route |-> "none", arg |-> "",
     self |-> NoClient, got |-> NoOutcome, ret |-> <<"none">>, exc |-> NoExc,
     raised |-> NoExc, resp |-> NoResp]

LlmFree(c) == callers[c].pc \in {"idle", "returned", "responded"}

\* provider arguments of a direct get_llm_client call; "" is None
ProviderArgs == {"", "dify", "DashScope", "volcengine", "volc", "unknown"}

\* client objects made by calling the classes directly
ChatClients ==
    {DifyLlmClient(e, k) : e \in {"", "https://dify/v1/chat-messages"},
                           k \in {"", "app-key"}}
        \cup {DashScopeLlmClient("", k, "") : k \in {"", "sk"}}
        \cup {DashScopeVisionClient("", k, "qwen-vl-max-latest") : k \in {"", "sk"}}
        \cup {VolcEngineLlmClient("https://ark/api/v3", k, m) :
                  k \in {"", "sk-volc"}, m \in {"", "ep-1"}}

\* a factory call ends: the caller has the client or the exception
FactoryEnd(c, op, provider, f) ==
    /\ callers' = [callers EXCEPT ![c] =
           [LlmIdle EXCEPT !.op = op, !.pc = "returned", !.arg = provider,
                           !.ret = IF f.exc = NoExc THEN <<"client", f.ret>>
                                   ELSE <<"none">>,
                           !.exc = f.exc]]
    /\ slotv' = f.mem
    /\ clients' = f.objs

\* a caller calls get_llm_client(provider)
CallGetLlmClient(c, provider) ==
    /\ LlmFree(c)
    /\ calls < MaxCalls
    /\ calls' = calls + 1
    /\ FactoryEnd(c, "get_llm_client", provider,
                  get_llm_client(policy.llm, slotv, clients, provider))
    /\ UNCHANGED <<policy, tunnels, fwds, life, deaths>>

\* a caller calls get_dashscope_vision_client()
CallGetVisionClient(c) ==
    /\ LlmFree(c)
    /\ calls < MaxCalls
    /\ calls' = calls + 1
    /\ FactoryEnd(c, "get_dashscope_vision_client", "",
                  get_dashscope_vision_client(policy.llm, slotv, clients))
    /\ UNCHANGED <<policy, tunnels, fwds, life, deaths>>

\* chat() / analyze_image() of client self up to the await of post(), for
\* route "none" a direct call
ChatBegin(c, route, self) ==
    LET op == IF self.cls = "DashScopeVisionClient" THEN "analyze_image"
              ELSE "chat"
        e == CallTimeCheck(self)
        f == [LlmIdle EXCEPT !.op = op, !.route = route, !.self = self]
    IN  IF e = NoExc THEN [f EXCEPT !.pc = "await_post"]
        ELSE IF route = "none" THEN [f EXCEPT !.pc = "returned", !.exc = e]
        ELSE [f EXCEPT !.pc = "responded", !.exc = e,
                       !.raised = HandlerEnd(route, ChatOutcome(e, JNull)).exc,
                       !.resp = RouteEnd(route, ChatOutcome(e, JNull))]

\* a caller calls chat() / analyze_image() on a client object
CallChat(c, self) ==
    /\ LlmFree(c)
    /\ calls < MaxCalls
    /\ calls' = calls + 1
    /\ callers' = [callers EXCEPT ![c] = ChatBegin(c, "none", self)]
    /\ UNCHANGED <<policy, tunnels, fwds, slotv, clients, life, deaths>>

\* post() ends with outcome o: the rest of chat() / analyze_image(), and of
\* the route handler that called it
PostDone(c, o) ==
    /\ callers[c].pc = "await_post"
    /\ LET f == callers[c]
           out == AfterPost(f.self, o)
       IN  callers' = [callers EXCEPT ![c] =
               IF f.route = "none"
               THEN [f EXCEPT !.pc = "returned", !.got = o, !.exc = out.exc,
                              !.ret = IF out.exc = NoExc THEN out.ret
                                      ELSE <<"none">>]
               ELSE [f EXCEPT !.pc = "responded", !.got = o, !.exc = out.exc,
                              !.raised = HandlerEnd(f.route, out).exc,
                              !.resp = RouteEnd(f.route, out)]]
    /\ UNCHANGED <<policy, tunnels, fwds, slotv, clients, life, calls, deaths>>

\* a request for a route: validation of the body, then the handler up to
\* its first await or to its response
Request(c, route, valid) ==
    /\ LlmFree(c)
    /\ calls < MaxCalls
    /\ calls' = calls + 1
    /\ LET f == IF route \in {"llm_chat", "llm_chat_volc"}
                THEN get_llm_client(policy.llm, slotv, clients,
                         IF route = "llm_chat" THEN "" ELSE "volcengine")
                ELSE get_dashscope_vision_client(policy.llm, slotv, clients)
           done == [LlmIdle EXCEPT !.op = "request", !.route = route,
                                   !.pc = "responded"]
       IN  IF route = "health"
           THEN /\ callers' = [callers EXCEPT ![c] =
                       [done EXCEPT !.resp =
                           success(JObj(<<<<"status", JStr("ok")>>>>))]]
                /\ UNCHANGED <<slotv, clients>>
           ELSE IF ~valid
           THEN /\ callers' = [callers EXCEPT ![c] =
                       [done EXCEPT
                           !.exc = OtherException("RequestValidationError",
                                                  "field required"),
                           !.raised = OtherException("RequestValidationError",
                                                     "field required"),
                           !.resp = ExceptionHandlers(
                                        OtherException("RequestValidationError",
                                                       "field required"))]]
                /\ UNCHANGED <<slotv, clients>>
           ELSE IF f.exc # NoExc
           THEN /\ callers' = [callers EXCEPT ![c] =
                       [done EXCEPT !.exc = f.exc, !.raised = f.exc,
                                    !.resp = ExceptionHandlers(f.exc)]]
                /\ slotv' = f.mem
                /\ clients' = f.objs
           ELSE /\ callers' = [callers EXCEPT ![c] =
                       ChatBegin(c, route, f.objs[f.ret])]
                /\ slotv' = f.mem
                /\ clients' = f.objs
    /\ UNCHANGED <<policy, tunnels, fwds, life, deaths>>

LlmPolicies ==
    [enabled : {FALSE}, ssh_host : {"jump"}, ssh_username : {"ops"},
     blank : {{}}, llm : LlmSettingsSet]

InitLlm ==
    /\ policy \in LlmPolicies
    /\ tunnels = EmptyMap
    /\ fwds = <<>>
    /\ slotv = [s \in LlmSlots |-> 0]
    /\ clients = <<>>
    /\ callers = [c \in Callers |-> LlmIdle]
    /\ life = [pc |-> "serving", done |-> {}, items |-> <<>>, exc |-> None,
               calls0 |-> 0, busy0 |-> FALSE]
    /\ calls = 0
    /\ deaths = 0

NextLlm ==
    \/ \E c \in Callers, p \in ProviderArgs : CallGetLlmClient(c, p)
    \/ \E c \in Callers : CallGetVisionClient(c)
    \/ \E c \in Callers, self \in ChatClients : CallChat(c, self)
    \/ \E c \in Callers, o \in PostOutcomes : PostDone(c, o)
    \/ \E c \in Callers, route \in Routes, valid \in BOOLEAN :
           Request(c, route, valid)

SpecLlm == InitLlm /\ [][NextLlm]_vars

(***************************************************************************)
(* The application as its clients see it: the routes above and             *)
(* /infra/ping/redis, whose dependency is get_redis_client.  The tunnel    *)
(* policy is off, so get_tunneled_url returns its argument at its entry.   *)
(***************************************************************************)

\* what await r.ping() comes to
Pings == {"PONG", "ConnectionError"}

JBool(b) == <<"bool", IF b THEN "true" ELSE "false">>

\* infra_ping.py lines 39-42: ping_redis once its dependency has ended, with
\* exception dep or with a client whose ping() comes to pong
ping_redis(dep, pong) ==
    IF dep # None THEN ChatOutcome(OtherException(dep, "redis is not configured or its initialisation failed"), JNull)
    ELSE IF pong # "PONG"
    THEN ChatOutcome(OtherException(pong, "Error 111 connecting to cache:6379. Connection refused."), JNull)
    ELSE ChatOutcome(NoExc, JObj(<<<<"pong", JBool(TRUE)>>>>))

\* the dependency of a request for /infra/ping/redis has ended: the handler
\* runs and the request is answered
PingRedis(c, pong) ==
    /\ callers[c].op = "get_redis_client"
    /\ callers[c].pc = "returned"
    /\ LET h == ping_redis(callers[c].exc, pong)
       IN  callers' = [callers EXCEPT ![c] =
               [LlmIdle EXCEPT !.op = "request", !.route = "ping_redis",
                               !.pc = "responded", !.exc = h.exc,
                               !.raised = h.exc, !.resp = Respond(h)]]
    /\ UNCHANGED <<policy, tunnels, fwds, slotv, clients, life, calls, deaths>>

ApiLlmSettings ==
    {l \in LlmSettingsSet : /\ l.provider \in {"none", "dashscope"}
                            /\ l.dashscope_vision_api_key = ""
                            /\ l.volc_api_key = ""}

\* REDIS__URL is set or blank
ApiPolicies ==
    [enabled : {FALSE}, ssh_host : {"jump"}, ssh_username : {"ops"},
     blank : {{}, {"redis"}}, llm : ApiLlmSettings]

InitApi ==
    /\ policy \in ApiPolicies
    /\ tunnels = EmptyMap
    /\ fwds = <<>>
    /\ slotv = [s \in LlmSlots \cup {"redis"} |-> 0]
    /\ clients = <<>>
    /\ callers = [c \in Callers |-> LlmIdle]
    /\ life = [pc |-> "serving", done |-> {}, items |-> <<>>, exc |-> None,
               calls0 |-> 0, busy0 |-> FALSE]
    /\ calls = 0
    /\ deaths = 0

NextApi ==
    \/ \E c \in Callers : RedisGet(c)
    \/ \E c \in Callers : GtuEnter(c)
    \/ \E c \in Callers : RedisNew(c)
    \/ \E c \in Callers, pong \in Pings : PingRedis(c, pong)
    \/ NextLlm

SpecApi == InitApi /\ [][NextApi]_vars

(***************************************************************************)
(* Properties.                                                             *)
(***************************************************************************)
Forwarders == 1..Len(fwds)

Clients == 1..Len(clients)

\* a call of get_tunneled_url made by the caller itself has returned a value
Rewrote(c) ==
    /\ callers[c].op = "get_tunneled_url"
    /\ callers[c].pc = "returned"
    /\ callers[c].exc = None

\* the call would acquire a tunnel: its argument names a host and a port
NamesEndpoint(u) ==
    /\ u # <<>>
    /\ make_url(u).ok
    /\ make_url(u).host # None
    /\ make_url(u).port # NoPort

Tokens(u) == {u[i] : i \in 1..Len(u)}

\* C1: callers that ask concurrently for the tunnel of one (host, port) get
\* one forwarder: at every moment at most one live forwarder exists per key.
C1_OneLiveForwarderPerKey ==
    \A f, g \in Forwarders :
        (fwds[f].key = fwds[g].key /\ fwds[f].active /\ fwds[g].active) => f = g

\* C2: concurrent first calls of an accessor construct the client of a slot
\* at most once (nothing closes a client while the process serves).
C2_ConstructedAtMostOnce ==
    \A i, j \in Clients : clients[i].slot = clients[j].slot => i = j

\* C3: the teardown of the tunnels begins only after the close() of every
\* resource client registry has returned.
RegistryCloses ==
    {"close_mysql", "close_doris", "close_redis", "close_mongo", "close_es"}

TeardownBegun ==
    \/ life.pc \in {"close_all_tunnels", "stop_tunnels"}
    \/ "close_all_tunnels" \in life.done
    \/ \E f \in Forwarders : fwds[f].stops > 0

C3_TunnelsAfterRegistries == TeardownBegun => RegistryCloses \subseteq life.done

C3_Witness ==
    /\ life.pc = "stop_tunnels"
    /\ \E f \in Forwarders : fwds[f].stops > 0
    /\ \E i \in Clients : clients[i].slot = "redis" /\ clients[i].closed > 0
    /\ \E i \in Clients : clients[i].slot = "mongo_primary" /\ clients[i].closed > 0

\* C4: when the shutdown sequence has ended (and no accessor ran during it),
\* every client that was built has been closed and the registry is empty.
ShutdownEnded ==
    /\ life.pc \in {"done", "failed"}
    /\ calls = life.calls0
    /\ ~life.busy0

C4_ShutdownClosesEverything ==
    ShutdownEnded =>
        /\ \A i \in Clients : clients[i].closed > 0
        /\ tunnels = EmptyMap

\* C5 as stated: a slot that was closed is never built again, so a slot has
\* no client that was constructed after an earlier client of the slot.
ClosableSlots == {"redis", "mongo_primary", "mongo_attend", "es"}

ClosingStep(slot) ==
    CASE slot = "redis" -> "await_redis"
      [] slot = "es" -> "await_es"
      [] slot = "mongo_primary" -> "clear_primary"
      [] slot = "mongo_attend" -> "clear_attend"

CloseOf(slot) ==
    CASE slot = "redis" -> "close_redis"
      [] slot = "es" -> "close_es"
      [] OTHER -> "close_mongo"

C6_DisabledIsIdentity ==
    ~policy.enabled =>
        /\ \A c \in Callers :
              (callers[c].op = "get_tunneled_url" /\ callers[c].pc = "returned")
                  => (callers[c].exc = None /\ callers[c].ret = callers[c].url)
        /\ tunnels = EmptyMap
        /\ fwds = <<>>

C6_Witness ==
    /\ ~policy.enabled
    /\ Rewrote("t1")
    /\ callers["t1"].url = MYSQL_URL
    /\ callers["t1"].ret = MYSQL_URL
    /\ callers["t1"].src = "again"
    /\ tunnels = EmptyMap

\* C7: with the policy enabled and the tunnel established, the url returned
\* has the scheme, user, password, database and query of the argument, the
\* loopback host and the local port of the forwarder registered for the key.
C7_RewritePreservesFields ==
    \A c \in Callers :
        (Rewrote(c) /\ ssh_enabled(policy) /\ NamesEndpoint(callers[c].url)) =>
            LET url == make_url(callers[c].url)
                out == make_url(callers[c].ret)
            IN  /\ out.ok
                /\ out.drivername = url.drivername
                /\ out.username = url.username
                /\ out.password = url.password
                /\ out.database = url.database
                /\ out.query = url.query
                /\ out.host = Loopback
                /\ KeyOf(url) \in DOMAIN tunnels
                /\ out.port = fwds[tunnels[KeyOf(url)]].port

C7_Witness ==
    /\ Rewrote("t1")
    /\ callers["t1"].url = DORIS_URL
    /\ callers["t1"].ret =
          <<"mysql+pymysql", "://", "user", ":", "pw", "@", "127.0.0.1", ":",
            "54322", "/", "dw", "?", "charset=utf8">>

\* C8: the string returned carries the password of the argument; the masked
\* password is written to the log only.
C8_PasswordNeverMasked ==
    \A c \in Callers :
        Rewrote(c) =>
            /\ Masked \notin Tokens(callers[c].ret)
            /\ (make_url(callers[c].url).ok /\ make_url(callers[c].url).password # None)
                  => /\ make_url(callers[c].ret).ok
                     /\ make_url(callers[c].ret).password
                            = make_url(callers[c].url).password

C8_Witness ==
    /\ Rewrote("t1")
    /\ callers["t1"].url = REDIS_URL
    /\ callers["t1"].ret # REDIS_URL
    /\ "secret" \in Tokens(callers["t1"].ret)
    /\ Masked \in Tokens(callers["t1"].log)
    /\ "secret" \notin Tokens(callers["t1"].log)

\* C9: rewriting is idempotent: rewriting the url a call returned returns
\* that url, and no tunnel is made to the local end of another tunnel.
C9_RewriteIdempotent ==
    /\ \A c \in Callers :
          (Rewrote(c) /\ callers[c].src = "again") => callers[c].ret = callers[c].url
    /\ \A f, g \in Forwarders : fwds[f].key # <<Loopback, fwds[g].port>>

\* C10 as stated: with the policy enabled and the jump host credentials
\* incomplete, a call that names an endpoint fails and is no pass-through.
Misconfigured == policy.enabled /\ (policy.ssh_host = "" \/ policy.ssh_username = "")

C10_MisconfiguredFails ==
    \A c \in Callers :
        ( /\ Misconfigured
          /\ callers[c].op = "get_tunneled_url"
          /\ callers[c].pc = "returned"
          /\ NamesEndpoint(callers[c].url) )
        => (callers[c].exc # None /\ callers[c].ret # callers[c].url)

\* C10 as amended: with the policy enabled and the jump host credentials
\* incomplete, get_tunneled_url returns its argument, raises nothing and
\* creates no tunnel.
C10_MisconfiguredPassesThrough ==
    Misconfigured =>
        /\ \A c \in Callers :
              (callers[c].op = "get_tunneled_url" /\ callers[c].pc = "returned")
                  => (callers[c].exc = None /\ callers[c].ret = callers[c].url)
        /\ tunnels = EmptyMap
        /\ fwds = <<>>

C10_Witness ==
    /\ policy.enabled
    /\ policy.ssh_host = ""
    /\ Rewrote("t1")
    /\ callers["t1"].url = REDIS_URL
    /\ callers["t1"].ret = REDIS_URL

\* the local port a returned connection string carries
PortOf(u) == make_url(u).port

\* C11: a call that finds the forwarder registered for its key inactive goes
\* on to start a new forwarder; the new forwarder replaces the registered one
\* and the url returned carries its local port, not that of the dead one.
C11_Step(c) ==
    LET url == make_url(callers[c].url)
        old == TunnelGet(tunnels, KeyOf(url))
    IN  /\ ( /\ callers[c].pc = "gtu" /\ callers'[c].pc # "gtu"
             /\ ssh_enabled(policy) /\ NamesEndpoint(callers[c].url)
             /\ old # 0 /\ ~fwds[old].active )
            => callers'[c].pc = "gtu_start"
        /\ ( /\ callers[c].pc = "gtu_store" /\ callers'[c].pc = "returned"
             /\ callers'[c].exc = None
             /\ old # 0 )
            => /\ tunnels'[KeyOf(url)] = callers[c].fw
               /\ callers[c].fw # old
               /\ PortOf(callers'[c].ret) = fwds[callers[c].fw].port
               /\ PortOf(callers'[c].ret) # fwds[old].port

C11_InactiveHandleRecreated == [][\A c \in Callers : C11_Step(c)]_vars

C11_Witness ==
    /\ Rewrote("t1")
    /\ \E f, g \in Forwarders :
          /\ f < g
          /\ fwds[f].key = fwds[g].key
          /\ ~fwds[f].active /\ fwds[g].active
          /\ tunnels[fwds[g].key] = g
          /\ KeyOf(make_url(callers["t1"].url)) = fwds[g].key
          /\ PortOf(callers["t1"].ret) = fwds[g].port

\* C12: calls for one (host, port) share one tunnel: a key gets a further
\* forwarder only after its earlier one became inactive, every call returns
\* the local port of the forwarder registered for its key, whatever the other
\* fields of its url, and different keys have different forwarders.
C12_SameKeySharesTunnel ==
    /\ \A f, g \in Forwarders :
          (fwds[f].key = fwds[g].key /\ f < g) => ~fwds[f].active
    /\ \A k \in DOMAIN tunnels :
          /\ fwds[tunnels[k]].key = k
          /\ \A f \in Forwarders :
                fwds[f].key = k =>
                    \/ f <= tunnels[k]
                    \/ \E c \in Callers :
                          callers[c].pc = "gtu_store" /\ callers[c].fw = f
    /\ \A k1, k2 \in DOMAIN tunnels : k1 # k2 => tunnels[k1] # tunnels[k2]
    /\ \A c \in Callers :
          (Rewrote(c) /\ ssh_enabled(policy) /\ NamesEndpoint(callers[c].url)) =>
              LET key == KeyOf(make_url(callers[c].url))
              IN  /\ key \in DOMAIN tunnels
                  /\ PortOf(callers[c].ret) = fwds[tunnels[key]].port

C12_Witness ==
    /\ Rewrote("t1")
    /\ callers["t1"].url =
          <<"postgresql", "://", "bob", "@", "10.1.1.5", ":", "3306", "/", "other">>
    /\ PortOf(callers["t1"].ret) = LocalPortOf(1)
    /\ Len(fwds) = 2
    /\ fwds[1].key = KeyOf(make_url(MYSQL_URL)) /\ fwds[1].active
    /\ fwds[2].key = KeyOf(make_url(REDIS_URL))
    /\ tunnels[fwds[1].key] = 1 /\ tunnels[fwds[2].key] = 2

\* C13: close_all_tunnels calls stop() once on every forwarder of the
\* registry, goes on after a stop() that raises, and leaves the registry
\* empty; called on an empty registry it calls no stop() and changes nothing.
C13_Return ==
    (life.pc = "stop_tunnels" /\ life'.pc # "stop_tunnels") =>
        /\ life'.pc = "done"
        /\ tunnels' = EmptyMap
        /\ \A k \in DOMAIN tunnels : fwds[tunnels[k]].stops = 1

StopsOf(fw) == [f \in 1..Len(fw) |-> fw[f].stops]

C13_Empty ==
    (ReleaseRunning /\ tunnels = EmptyMap) =>
        (StopsOf(fwds') = StopsOf(fwds) /\ tunnels' = tunnels)

C13_ReleaseAllStopsEach ==
    /\ [](\A f \in Forwarders : fwds[f].stops <= 1)
    /\ [][C13_Return /\ C13_Empty]_vars

C13_Witness ==
    /\ life.pc = "stop_tunnels"
    /\ "close_all_tunnels" \in life.done
    /\ tunnels = EmptyMap
    /\ Len(fwds) = 2
    /\ fwds[1].stops = 1 /\ fwds[1].active
    /\ fwds[2].stops = 1 /\ ~fwds[2].active

\* C14: over any sequence of close_redis / close_mongo / close_es calls the
\* close() of a constructed client is called at most once (a close on a slot
\* that is empty or was closed releases nothing).
C14_ReleasedAtMostOnce ==
    \A i \in Clients :
        clients[i].slot \in ClosableSlots => clients[i].closed <= 1

\* C15: when forwarder.start() raises, the call ends at once with that
\* exception (no second attempt), the registry and the forwarders stay as
\* they were, and the accessor that asked for the url builds no client: its
\* slot stays empty.
C15_Step(c) ==
    (callers[c].pc = "gtu_start" /\ callers'[c].exc = "TunnelError") =>
        /\ callers'[c].pc = "returned"
        /\ callers'[c].ret = <<>> /\ callers'[c].cli = 0
        /\ tunnels' = tunnels
        /\ fwds' = fwds
        /\ slotv' = slotv
        /\ clients' = clients

C15_TunnelFailurePropagates == [][\A c \in Callers : C15_Step(c)]_vars

C15_Witness ==
    /\ callers["t1"].op = "get_redis_client"
    /\ callers["t1"].pc = "returned"
    /\ callers["t1"].exc = "TunnelError"
    /\ slotv["redis"] = 0
    /\ \A i \in Clients : clients[i].slot # "redis"
    /\ KeyOf(make_url(REDIS_URL)) \notin DOMAIN tunnels
    /\ \A f \in Forwarders : fwds[f].key # KeyOf(make_url(REDIS_URL))

\* C16: with the policy enabled, a call whose argument is empty or names no
\* host and port that can be parsed returns the argument and raises nothing.
C16_UnparsableFailsOpen ==
    \A c \in Callers :
        ( /\ callers[c].op = "get_tunneled_url"
          /\ callers[c].pc = "returned"
          /\ ssh_enabled(policy)
          /\ ~NamesEndpoint(callers[c].url) )
        => (callers[c].exc = None /\ callers[c].ret = callers[c].url)

\* the slot an accessor reads
SlotOfOp(op) ==
    CASE op = "get_redis_client" -> "redis"
      [] op = "get_es" -> "es"
      [] op = "get_doris_session" -> "doris"
      [] op = "get_qiniu_client" -> "qiniu"
      [] OTHER -> MongoSlot(op)

\* the slot whose client is built once the caller's get_tunneled_url returns
SlotOfLabel(after) ==
    CASE after = "redis_new" -> "redis"
      [] after = "es_host" -> "es"
      [] after = "doris_new" -> "doris"
      [] after = "im_primary_new" -> "mongo_primary"
      [] after = "im_attend_new" -> "mongo_attend"

AccessorOps == LoopOps \cup MongoOps \cup {"get_qiniu_client"}

\* C17: in a sequence of get() calls with no close() a slot's client is built
\* once: get_tunneled_url is called and a client constructed only while the
\* slot is empty, and every get() that returns hands out the slot's client.
C17_MemoizedHandle ==
    /\ \A i, j \in Clients : clients[i].slot = clients[j].slot => i = j
    /\ \A c \in Callers :
          /\ ( /\ callers[c].op \in AccessorOps
               /\ callers[c].pc \in {"gtu", "gtu_start", "gtu_store"} )
             => slotv[SlotOfLabel(callers[c].after)] = 0
          /\ ( /\ callers[c].op \in AccessorOps
               /\ callers[c].pc = "returned" /\ callers[c].exc = None )
             => /\ callers[c].cli # 0
                /\ callers[c].cli = slotv[SlotOfOp(callers[c].op)]

C17_Witness ==
    /\ calls = MaxCalls
    /\ callers["t1"].op = "get_redis_client"
    /\ callers["t1"].pc = "returned"
    /\ callers["t1"].cli = 2
    /\ slotv["redis"] = 2
    /\ Len(clients) = 2
    /\ Len(fwds) = 2 /\ ~fwds[2].active

\* the "not configured" exceptions of the accessors
NotConfigured == {"RuntimeError", "BizException"}

Sessions == {i \in Clients : clients[i].slot \in {"db_session", "doris_session"}}

\* the callers inside a unit of work with session i
HoldersOf(i) == {c \in Callers : callers[c].pc = "unit" /\ callers[c].cli = i}

\* C19: a session is closed exactly once when its unit of work ends, however
\* it ends, and every unit of work has a session of its own: an open session
\* belongs to exactly one running unit, a closed one to none.
C19_SessionReleasedOnce ==
    /\ \A i \in Sessions :
          /\ clients[i].closed <= 1
          /\ clients[i].closed = 0 => Cardinality(HoldersOf(i)) = 1
          /\ clients[i].closed = 1 => HoldersOf(i) = {}
    /\ \A c \in Callers :
          callers[c].pc = "unit" =>
              /\ callers[c].cli \in Sessions
              /\ clients[callers[c].cli].slot = SessionSlot(callers[c].op)

C19_Witness ==
    /\ callers["t1"].op = "get_db" /\ callers["t1"].pc = "returned"
    /\ callers["t1"].exc = "BizException"
    /\ callers["t2"].op = "get_db" /\ callers["t2"].pc = "returned"
    /\ callers["t2"].exc = None
    /\ Cardinality(Sessions) = 3
    /\ \E i \in Sessions : clients[i].slot = "doris_session"
    /\ \A i \in Sessions : clients[i].closed = 1

\* attempt i of the request ended in a network error or an HTTP error status
NetworkOrStatusError(f, i) ==
    \/ f.outs[i].kind = "RequestError"
    \/ f.outs[i].kind = "Response" /\ f.outs[i].status >= 400

\* attempt i of the request ended in a successful response
Succeeded(f, i) ==
    f.outs[i].kind = "Response" /\ f.outs[i].status \in 200 .. 299

\* the error of attempt i of the request
ErrorOf(f, i) ==
    IF f.outs[i].kind = "Response" THEN <<"HTTPStatusError", i>>
    ELSE <<f.outs[i].kind, i>>

\* C20: request(method, url, retries=r) with r >= 0 sends a further attempt
\* only after the previous one ended in a network error or an HTTP error
\* status, returns the first successful response and sends nothing after
\* it, sends at most r + 1 attempts (r retries), and when every attempt
\* failed raises the error of the last attempt; a request in progress
\* always comes to its end.
C20_Safe(f) ==
    /\ f.sent <= f.retries + 1
    /\ Len(f.outs) \in {f.sent - 1, f.sent}
    /\ Len(f.outs) = f.sent <=> f.pc # "await_request"
    /\ \A i \in 1 .. f.sent - 1 :
          i <= Len(f.outs) /\ NetworkOrStatusError(f, i)
    /\ f.pc = "returned" =>
          LET n == Len(f.outs)
          IN  /\ n >= 1
              /\ Succeeded(f, n) =>
                    f.ret = <<"Response", f.outs[n], n>> /\ f.exc = <<>>
              /\ ~Succeeded(f, n) => f.exc = ErrorOf(f, n) /\ f.ret = <<>>
              /\ NetworkOrStatusError(f, n) => n = f.retries + 1

C20_BoundedRetries ==
    /\ [](\A c \in Callers :
            (callers[c].op = "request" /\ callers[c].retries >= 0)
                => C20_Safe(callers[c]))
    /\ \A c \in Callers :
            (callers[c].pc \in {"await_request", "sleep"})
                ~> (callers[c].pc = "returned")

\* one request with two retries raised the error status of its third
\* attempt after a network error and an error status; the other returned
\* the response of its second attempt
C20_Witness ==
    /\ callers["t1"].pc = "returned"
    /\ callers["t1"].retries = 2
    /\ callers["t1"].outs = <<NetErr, Resp(404), Resp(503)>>
    /\ callers["t1"].exc = <<"HTTPStatusError", 3>>
    /\ callers["t1"].slept = <<2, 4>>
    /\ callers["t2"].pc = "returned"
    /\ callers["t2"].retries = 2
    /\ callers["t2"].outs = <<Resp(503), Resp(200)>>
    /\ callers["t2"].ret = <<"Response", Resp(200), 2>>
    /\ callers["t2"].sent = 2

\* the provider id a finished get_llm_client call of caller c resolved
ProviderOf(c) == Lower(Or(callers[c].arg, policy.llm.provider))

\* the slot a finished factory call of caller c is about
FactorySlot(c) ==
    IF callers[c].op = "get_dashscope_vision_client" THEN "vision"
    ELSE ProviderOf(c)

FactoryDone(c) ==
    /\ callers[c].pc = "returned"
    /\ callers[c].op \in {"get_llm_client", "get_dashscope_vision_client"}

ChatDone(c) ==
    callers[c].pc = "returned" /\ callers[c].op \in {"chat", "analyze_image"}

NotConfiguredTexts ==
    {"LLM(Dify) endpoint or api_key not configured", "LLM(DashScope) api_key not configured", "DashScope vision model api_key not configured",
     "LLM(VolcEngine) api_key or model not configured"}
BadFormatTexts == {"LLM(DashScope) unexpected response format", "DashScope vision model unexpected response format", "LLM(VolcEngine) unexpected response format"}
NoAnswerTexts ==
    {"LLM(Dify) returned no valid answer field", "LLM(DashScope) returned no valid content", "DashScope vision model returned no valid content", "LLM(VolcEngine) returned no valid content"}

\* the business errors of the provider clients, told apart by their text
MisconfiguredProvider(e) ==
    e.cls = "BizException" /\ e.msg \in NotConfiguredTexts
ProviderResponseError(e) ==
    e.cls = "BizException" /\ e.msg \in BadFormatTexts
ProviderEmptyAnswer(e) ==
    e.cls = "BizException" /\ e.msg \in NoAnswerTexts
UnsupportedProvider(e) ==
    /\ e.cls = "BizException"
    /\ e.code = BUSINESS_ERROR
    /\ e.msg = UnsupportedText(policy.llm.provider)

\* the settings lack a credential the client of slot p requires
CredentialsMissing(p) == CallTimeCheck(ConstructLlm(policy.llm, p)) # NoExc

\* C21: a factory call for a supported provider whose required credentials
\* are missing fails with MisconfiguredProvider and memoizes no client, and
\* no chat() or analyze_image() call is the first to report missing
\* credentials.
C21_CredentialsCheckedAtConstruction ==
    \A c \in Callers :
        /\ (FactoryDone(c) /\ FactorySlot(c) \in LlmSlots
                /\ CredentialsMissing(FactorySlot(c)))
              => /\ MisconfiguredProvider(callers[c].exc)
                 /\ slotv[FactorySlot(c)] = 0
        /\ ChatDone(c) => ~MisconfiguredProvider(callers[c].exc)

\* C22: a chat() or analyze_image() call the provider answered with a
\* non-2xx status fails with ProviderResponseError.
C22_Non2xxIsProviderResponseError ==
    \A c \in Callers :
        (ChatDone(c) /\ callers[c].got.kind = "HTTPStatusError")
            => ProviderResponseError(callers[c].exc)

\* the body has the message of its first choice
UsableMessage(body) ==
    LET choices == Subscript(body, "choices")
        first == IF choices[1] = "ok" THEN Item0(choices[2]) ELSE <<"raise">>
        message == IF first[1] = "ok" THEN Subscript(first[2], "message")
                   ELSE <<"raise">>
    IN  message[1] = "ok" /\ message[2][1] = "obj"

\* C23: a chat() or analyze_image() call that got a 2xx response returns a
\* non-empty answer text or fails with ProviderResponseError or
\* ProviderEmptyAnswer; a body without a usable choices[0].message fails
\* with ProviderResponseError (for a DifyLlmClient, whose answer is the
\* field answer or output_text, only the first part is stated).
C23_OnlyNonEmptyAnswerText ==
    \A c \in Callers :
        (ChatDone(c) /\ callers[c].got.kind = "Response") =>
            /\ callers[c].exc = NoExc =>
                  callers[c].ret[1] = "str" /\ callers[c].ret[2] # ""
            /\ callers[c].exc # NoExc =>
                  \/ ProviderResponseError(callers[c].exc)
                  \/ ProviderEmptyAnswer(callers[c].exc)
            /\ (callers[c].self.cls # "DifyLlmClient"
                    /\ (callers[c].got.body[1] = "raw"
                            \/ ~UsableMessage(callers[c].got.body)))
                  => ProviderResponseError(callers[c].exc)

\* a get_llm_client call, direct or of route llm_chat, that resolved an
\* unsupported provider id has ended
UnsupportedDone(c) ==
    \/ callers[c].pc = "returned" /\ callers[c].op = "get_llm_client"
           /\ ProviderOf(c) \notin LlmKeys
    \/ callers[c].pc = "responded" /\ callers[c].route = "llm_chat"
           /\ callers[c].exc.cls # "RequestValidationError"
           /\ Lower(policy.llm.provider) \notin LlmKeys

\* C24: get_llm_client with an unsupported provider id fails with the
\* business error UnsupportedProvider; the call constructs no client and
\* leaves the memo table as it was, so every later call with the id fails
\* again.
C24_UnsupportedProviderFails ==
    /\ [](\A c \in Callers :
            UnsupportedDone(c) => UnsupportedProvider(callers[c].exc))
    /\ [][\A c \in Callers :
            (callers'[c] # callers[c] /\ UnsupportedDone(c)')
                => slotv' = slotv /\ clients' = clients]_vars

\* get_llm_client("unknown") failed twice with UnsupportedProvider, and the
\* memo table is empty
C24_Witness ==
    /\ \A c \in Callers :
          /\ callers[c].pc = "returned"
          /\ callers[c].op = "get_llm_client"
          /\ callers[c].arg = "unknown"
          /\ UnsupportedProvider(callers[c].exc)
          /\ callers[c].exc.cls = "BizException"
    /\ calls >= 2
    /\ clients = <<>>
    /\ \A s \in LlmSlots : slotv[s] = 0

\* C25: every get_llm_client call with a supported provider id returns the
\* one client memoized under that id, at most one client is constructed
\* per id, and no two ids share a client.
C25_OneClientPerProvider ==
    /\ \A c \in Callers :
          (callers[c].pc = "returned" /\ callers[c].op = "get_llm_client"
                /\ ProviderOf(c) \in LlmKeys)
             => /\ callers[c].exc = NoExc
                /\ callers[c].ret = <<"client", slotv[ProviderOf(c)]>>
                /\ slotv[ProviderOf(c)] # 0
    /\ \A p, q \in LlmKeys : (p # q /\ slotv[p] # 0) => slotv[p] # slotv[q]
    /\ Len(clients) <= Cardinality({p \in LlmSlots : slotv[p] # 0})

(***************************************************************************)
(* C26: the response envelope.                                             *)
(***************************************************************************)

Responded(c) == callers[c].pc = "responded"

\* the failures the application expects: a BizException, and a resource that
\* is down or not configured
ExpectedFailure(c) ==
    /\ callers[c].exc # NoExc
    /\ \/ callers[c].exc.cls = "BizException"
       \/ callers[c].route = "ping_redis"

\* a failure that is neither expected nor a rejection of the request itself
\* (a body that fails validation, an answer that is not JSON)
Unanticipated(c) ==
    /\ callers[c].exc # NoExc
    /\ ~ExpectedFailure(c)
    /\ callers[c].exc.cls # "RequestValidationError"

\* C26: every response is an envelope of code, msg and data; a handler that
\* completes normally is answered with HTTP 200, code 0 and msg "ok", an
\* expected failure (a BizException, a resource that is down or not
\* configured) with HTTP 200 and a non-zero code, any other exception with
\* HTTP 500, the internal error code and the fixed message, which does not
\* carry the text of the exception.
C26_EnvelopeStatusAndCode ==
    \A c \in Callers : Responded(c) =>
        LET f == callers[c] IN
        /\ DOMAIN f.resp = {"status", "code", "msg", "data"}
        /\ f.raised = NoExc =>
               /\ f.resp.status = 200
               /\ f.resp.code = SUCCESS
               /\ f.resp.msg = "ok"
        /\ ExpectedFailure(c) =>
               /\ f.resp.status = 200
               /\ f.resp.code # SUCCESS
        /\ Unanticipated(c) =>
               /\ f.resp.status = 500
               /\ f.resp.code = INTERNAL_ERROR
               /\ f.resp.msg = "internal server error"

(***************************************************************************)
(* C27: the port of a client that get() hands out.                         *)
(***************************************************************************)

\* the connection string a slot's client is built from
ConfiguredUrl(slot) ==
    CASE slot = "redis" -> REDIS_URL
      [] slot = "mongo_primary" -> MONGO_PRIMARY_URI
      [] slot = "mongo_attend" -> MONGO_ATTENDENCE_URI

\* the step ends a get() of caller c that returns a client
GetReturns(c) ==
    /\ callers'[c] # callers[c]
    /\ callers'[c].op \in {"get_redis_client"} \cup MongoOps
    /\ callers'[c].pc = "returned"
    /\ callers'[c].exc = None
    /\ callers'[c].cli # 0

\* the client a get() returns was built on the forwarder that is now
\* registered for its remote address, and that forwarder is active
OnRegisteredTunnel(c) ==
    LET cl == clients[callers[c].cli]
        f == TunnelGet(tunnels, KeyOf(make_url(ConfiguredUrl(cl.slot))))
    IN  /\ f # 0
        /\ fwds[f].active
        /\ PortOf(cl.addr[1]) = fwds[f].port

\* C27: with the tunnel policy enabled, whenever get() returns a client, the
\* loopback port of the client's effective address is the local port of the
\* forwarder registered and active for the client's remote (host, port) at
\* that moment, also when the tunnel died or was recreated since the client
\* was built.
C27_ClientOnActiveTunnel ==
    [][ssh_enabled(policy) =>
           \A c \in Callers : GetReturns(c) => OnRegisteredTunnel(c)']_vars

(***************************************************************************)
(* C28: the shutdown sequence goes on after a close that raises.           *)
(***************************************************************************)

\* the call named step was made during shutdown: it returned or it raised
Attempted(step) == step \in life.done \/ life.exc = step

\* C28: in every shutdown close_all_tunnels is invoked and every close of a
\* registry is attempted, also when one of the close steps raises: once
\* lifespan has left its shutdown sequence none of these calls is missing.
C28_ShutdownReachesTunnels ==
    life.pc \in {"done", "failed"} =>
        /\ Attempted("close_all_tunnels")
        /\ \A step \in RegistryCloses : Attempted(step)

(***************************************************************************)
(* C29: get() against a close() that is under way.                         *)
(***************************************************************************)

\* the step ends a get_redis_client() or get_es() of c that returns a client
AsyncGetReturns(c) ==
    /\ callers'[c] # callers[c]
    /\ callers'[c].op \in {"get_redis_client", "get_es"}
    /\ callers'[c].pc = "returned"
    /\ callers'[c].exc = None
    /\ callers'[c].cli # 0

\* close() has been called on the client of the slot
CloseStarted(slot) == slotv[slot] # 0 /\ clients[slotv[slot]].closed > 0

\* close_redis / close_es is suspended at its await of close()
Closing(slot) ==
    life.pc = (IF slot = "redis" THEN "await_redis" ELSE "await_es")

\* C29: no get() returns a client on which close() has started: a get() that
\* runs while close_redis / close_es awaits close() does not obtain the
\* client being closed, and once close() has raised the slot no longer holds
\* the half-closed client.
C29_NoGetOfClosingClient ==
    /\ [][\A c \in Callers :
             AsyncGetReturns(c) => clients'[callers'[c].cli].closed = 0]_vars
    /\ [](\A slot \in {"redis", "es"} : CloseStarted(slot) => Closing(slot))

(***************************************************************************)
(* C30: no forwarder is lost.                                              *)
(***************************************************************************)

\* forwarder f is the registry entry of its key
Registered(f) == TunnelGet(tunnels, fwds[f].key) = f

\* forwarder f was started by a call that is about to store it (line 69)
BeingStored(f) ==
    \E c \in Callers : callers[c].pc = "gtu_store" /\ callers[c].fw = f

\* C30: no forwarder leaks: every forwarder ever started is still the
\* registry entry of its key or has had stop() invoked, so that after
\* close_all_tunnels every forwarder ever started has been stopped, those
\* that were replaced in the registry included.
C30_NoForwarderLeaks ==
    \A f \in Forwarders : Registered(f) \/ fwds[f].stops > 0 \/ BeingStored(f)

=============================================================================
